---- MODULE Spec2Model ----
(***************************************************************************)
(* Token lifecycle of WhoopClient (whoop-cli): the cached bearer token,    *)
(* the single-flight login and the 401 retry loop of get().                *)
(*                                                                         *)
(* JavaScript runs the client on one event loop.  A step of the model is   *)
(* one run of client code between two completions of network I/O: the      *)
(* synchronous start of a call up to its first pending fetch, or the       *)
(* arrival of a response together with every continuation that the         *)
(* response makes runnable (the promise reactions of one microtask         *)
(* checkpoint).  Time is Date.now() in milliseconds.                       *)
(*                                                                         *)
(* The client modelled is the current revision, src/unnamed/part_001.      *)
(* src/index.ts is an earlier revision of the same file: its login() has   *)
(* no in-flight marker and its 401 branch always logs in again.            *)
(***************************************************************************)
EXTENDS Integers, Sequences, FiniteSets, TLC

\* ---------------------------------------------------------------- bounds
MaxLogins == 3           \* auth POSTs sent in one behaviour
MaxTicks == 2            \* clock advances in one behaviour

TickMs == 2 * 60 * 1000  \* granularity of the clock: two minutes

\* the concurrent get()/login() calls made on the one client
Callers == {"c1", "c2"}

\* ------------------------------------------------------ the remote service
AccessTokens == {"tokA", "tokB"}
ExpiresInValues == {240, 420}      \* seconds: under / over the 5 minute margin

\* An auth exchange: the transport rejects, or a response arrives with a
\* status (ok or not) and a decoded body.  accessToken = "" stands for an
\* absent or empty AccessToken, numeric = FALSE for an ExpiresIn that is
\* absent or not a number.
AuthReject == [kind |-> "reject", ok |-> FALSE, accessToken |-> "", numeric |-> FALSE, expiresIn |-> 0]

AuthResponses ==
    { [kind |-> "response", ok |-> TRUE, accessToken |-> t, numeric |-> TRUE, expiresIn |-> e] :
        t \in AccessTokens, e \in ExpiresInValues }
    \cup { [kind |-> "response", ok |-> TRUE, accessToken |-> "", numeric |-> TRUE, expiresIn |-> 420],
           [kind |-> "response", ok |-> TRUE, accessToken |-> "tokA", numeric |-> FALSE, expiresIn |-> 0],
           [kind |-> "response", ok |-> FALSE, accessToken |-> "tokA", numeric |-> TRUE, expiresIn |-> 420],
           [kind |-> "response", ok |-> FALSE, accessToken |-> "", numeric |-> FALSE, expiresIn |-> 0],
           AuthReject }

\* A GET exchange: an HTTP status, or Rejected when the transport throws.
Rejected == 0
GetResponses == {200, 401, 500, Rejected}

\* The decoded body served with the k-th response to a call.
Body(k) == k

\* ------------------------------------------------------------------ state
VARIABLES
    now,            \* Date.now()
    tokenData,      \* WhoopClient.tokenData (NoToken for null)
    loginInFlight,  \* WhoopClient.loginInFlight: the attempt it holds, 0 for null
    authSent,       \* auth POSTs sent so far; attempt k sent the k-th
    pending,        \* attempts whose auth exchange is still outstanding
    settled,        \* the attempt that settled last, with its response
    calls,          \* the get()/login() calls: position and locals of each
    arg,            \* the argument of the extractor or formatter under evaluation
    ret             \* what that evaluation produced (NotRun before it ran)

vars == <<now, tokenData, loginInFlight, authSent, pending, settled, calls, arg, ret>>

NoToken == [accessToken |-> "", expiresAt |-> 0]

NoOutcome == [kind |-> "none", status |-> 0, body |-> 0, token |-> NoToken, err |-> "none"]

NoAttempt == [id |-> 0, error |-> "none", token |-> NoToken, resp |-> AuthReject, at |-> 0]

IdleCall ==
    [ op |-> "none", pc |-> "idle", site |-> "none", retried |-> FALSE,
      requestToken |-> "", remaining |-> 0, via |-> 0, waitingOn |-> 0,
      gets |-> 0, logins |-> 0, on401 |-> "none", logins401 |-> 0,
      lastStatus |-> -1, outcome |-> NoOutcome ]

\* No extractor or formatter is under evaluation.
NotRun == [fn |-> "none", out |-> [t |-> "undefined"]]

\* A client as the constructor leaves it.
ClientInit ==
    /\ now = 0
    /\ tokenData = NoToken
    /\ loginInFlight = 0
    /\ authSent = 0
    /\ pending = {}
    /\ settled = NoAttempt
    /\ calls = [c \in Callers |-> IdleCall]

Init ==
    /\ ClientInit
    /\ arg = NotRun
    /\ ret = NotRun

\* -------------------------------------------------------------- login()
\* login() without the in-flight check: every call starts its own attempt
LoginStartsAlways(lif) == TRUE

\* `if (!this.loginInFlight)`: login() starts performLogin() only when no
\* attempt is in flight.
LoginStarts(lif) == lif = 0

\* performLogin() runs synchronously up to its fetch: one auth POST is sent.
SentAfterLogin(lif, sent) ==
    IF LoginStarts(lif) THEN sent + 1 ELSE sent

\* the attempt whose promise login() returns
InFlightAfterLogin(lif, sent) ==
    IF LoginStarts(lif) THEN sent + 1 ELSE lif

\* the marker left in place when the attempt settles
InFlightKept(lif) == lif

\* `.finally(() => { this.loginInFlight = null })`
InFlightAfterFinally(lif) == 0

\* -------------------------------------------------------- performLogin()
\* the response check without the `typeof auth.ExpiresIn` test
LoginErrorNoTypeCheck(resp) ==
    IF resp.kind = "reject" THEN "transport"
    ELSE IF ~resp.ok THEN "status"
    ELSE IF resp.accessToken = "" THEN "tokenNotPresent"
    ELSE "none"

LoginError(resp) ==
    IF resp.kind = "reject" THEN "transport"
    ELSE IF ~resp.ok THEN "status"
    ELSE IF resp.accessToken = "" \/ ~resp.numeric THEN "tokenNotPresent"
    ELSE "none"

NewToken(resp, t) ==
    [accessToken |-> resp.accessToken, expiresAt |-> t + resp.expiresIn * 1000]

\* a performLogin() that drops the stored token when the attempt fails
TokenDroppedOnFailure(td, resp, t) ==
    IF LoginError(resp) = "none" THEN NewToken(resp, t) ELSE NoToken

TokenAfterLogin(td, resp, t) ==
    IF LoginError(resp) = "none" THEN NewToken(resp, t) ELSE td

\* ---------------------------------------------------- ensureValidToken()
FiveMinutes == 5 * 60 * 1000

\* ensureValidToken() that looks only at whether a token is stored
NeedsLoginNoExpiry(td, t) ==
    td = NoToken

\* the expiry check without the five minute margin
NeedsLoginNoMargin(td, t) ==
    \/ td = NoToken
    \/ td.expiresAt - t < 0

NeedsLogin(td, t) ==
    \/ td = NoToken
    \/ td.expiresAt - t < FiveMinutes

\* ------------------------------------------------------------------ get()
IsOk(status) == status \in 200..299

\* the retry taken on every 401, whether or not the call has retried
RetryEvery401(status, retried) == status = 401

\* the retry taken on any failure status
RetryAnyFailure(status, retried) == ~retried

\* `response.status === 401 && !retried`
RetryAllowed(status, retried) == status = 401 /\ ~retried

\* the 401 branch without the rotation check: it always logs in again
StillCurrentAlways(td, requestToken) == TRUE

\* `this.tokenData?.accessToken === requestToken`
StillCurrent(td, requestToken) == td # NoToken /\ td.accessToken = requestToken

\* --------------------------------------------- continuations of one call
\* the call returns or throws: its frame and locals are gone
Finish(cs, pc, outcome) ==
    [cs EXCEPT !.pc = pc, !.site = "none", !.waitingOn = 0,
               !.requestToken = "", !.remaining = 0, !.via = 0,
               !.outcome = outcome]

Fail(cs, kind, status, err) ==
    Finish(cs, "failed", [NoOutcome EXCEPT !.kind = kind, !.status = status, !.err = err])

\* await this.login() at `site`, on attempt a
AwaitLogin(cs, a, site) ==
    [cs EXCEPT !.pc = "awaitLogin", !.site = site, !.waitingOn = a,
               !.logins = @ + 1,
               !.logins401 = IF cs.on401 = "none" /\ site # "retry401" THEN @ ELSE @ + 1,
               !.on401 = IF site = "retry401" THEN "relogin" ELSE @]

\* getHeaders() after ensureValidToken() has returned, then fetch(): `via` is
\* the attempt ensureValidToken() awaited for this request, 0 if none.
SendGet(cs, td, t, via) ==
    IF td = NoToken
    THEN Fail(cs, "error", 0, "noAccessToken")
    ELSE [cs EXCEPT !.pc = "awaitGet", !.site = "none", !.waitingOn = 0,
                    !.requestToken = td.accessToken,
                    !.remaining = td.expiresAt - t,
                    !.via = via,
                    !.gets = @ + 1]

\* this.login(), called by call c with locals cs at `site`
CallLogin(c, cs, site) ==
    /\ SentAfterLogin(loginInFlight, authSent) <= MaxLogins
    /\ authSent' = SentAfterLogin(loginInFlight, authSent)
    /\ loginInFlight' = InFlightAfterLogin(loginInFlight, authSent)
    /\ pending' = IF authSent' > authSent THEN pending \cup {authSent'} ELSE pending
    /\ calls' = [calls EXCEPT ![c] =
            AwaitLogin(cs, InFlightAfterLogin(loginInFlight, authSent), site)]

\* ensureValidToken() that starts the login but does not await it
IterateNoAwait(c, cs) ==
    /\ calls' = [calls EXCEPT ![c] = SendGet(cs, tokenData, now, 0)]
    /\ IF NeedsLogin(tokenData, now)
       THEN /\ SentAfterLogin(loginInFlight, authSent) <= MaxLogins
            /\ authSent' = SentAfterLogin(loginInFlight, authSent)
            /\ loginInFlight' = InFlightAfterLogin(loginInFlight, authSent)
            /\ pending' = IF authSent' > authSent THEN pending \cup {authSent'} ELSE pending
       ELSE UNCHANGED <<authSent, loginInFlight, pending>>

\* One pass of `while (true)` from getHeaders() to the first pending
\* promise, for call c whose locals are cs.
Iterate(c, cs) ==
    IF NeedsLogin(tokenData, now)
    THEN CallLogin(c, cs, "ensure")
    ELSE /\ calls' = [calls EXCEPT ![c] = SendGet(cs, tokenData, now, 0)]
         /\ UNCHANGED <<authSent, loginInFlight, pending>>

\* ---------------------------------------------------------------- actions
StartGet(c) ==
    /\ calls[c].pc = "idle"
    /\ Iterate(c, [calls[c] EXCEPT !.op = "get", !.retried = FALSE])
    /\ UNCHANGED <<now, tokenData, settled>>
    /\ UNCHANGED <<arg, ret>>

StartLogin(c) ==
    /\ calls[c].pc = "idle"
    /\ CallLogin(c, [calls[c] EXCEPT !.op = "login"], "direct")
    /\ UNCHANGED <<now, tokenData, settled>>
    /\ UNCHANGED <<arg, ret>>

\* A GET response (or transport failure) arrives for call c: lines 179-193.
GetResponse(c, status) ==
    LET cs0 == [calls[c] EXCEPT !.lastStatus = status]
        cs1 == [cs0 EXCEPT !.retried = TRUE,
                           !.on401 = IF StillCurrent(tokenData, cs0.requestToken)
                                     THEN "relogin" ELSE "rotated"]
    IN  /\ calls[c].pc = "awaitGet"
        /\ IF status = Rejected
           THEN /\ calls' = [calls EXCEPT ![c] = Fail(cs0, "transportError", 0, "transport")]
                /\ UNCHANGED <<authSent, loginInFlight, pending>>
           ELSE IF IsOk(status)
           THEN /\ calls' = [calls EXCEPT ![c] =
                       Finish(cs0, "done", [NoOutcome EXCEPT !.kind = "payload",
                                                             !.status = status,
                                                             !.body = Body(cs0.gets)])]
                /\ UNCHANGED <<authSent, loginInFlight, pending>>
           ELSE IF RetryAllowed(status, cs0.retried)
           THEN IF StillCurrent(tokenData, cs0.requestToken)
                THEN CallLogin(c, cs1, "retry401")
                ELSE Iterate(c, cs1)
           ELSE /\ calls' = [calls EXCEPT ![c] = Fail(cs0, "apiError", status, "api")]
                /\ UNCHANGED <<authSent, loginInFlight, pending>>
        /\ UNCHANGED <<now, tokenData, settled>>
        /\ UNCHANGED <<arg, ret>>

\* a get() that swallows the login error and goes on to getHeaders()
ResumeSwallow(cs, a, td, t, err, next) ==
    IF cs.site = "direct"
    THEN IF err # "none" THEN Fail(cs, "loginError", 0, err)
         ELSE Finish(cs, "done", [NoOutcome EXCEPT !.kind = "token", !.token = td])
    ELSE SendGet(cs, td, t, a)

\* the 401 retry that re-sends without going through ensureValidToken()
ResumeNoRecheck(cs, a, td, t, err, next) ==
    IF err # "none" THEN Fail(cs, "loginError", 0, err)
    ELSE IF cs.site = "direct"
    THEN Finish(cs, "done", [NoOutcome EXCEPT !.kind = "token", !.token = td])
    ELSE SendGet(cs, td, t, IF cs.site = "ensure" THEN a ELSE 0)

\* What a call awaiting attempt a does when the attempt settles: td is the
\* stored token after performLogin(), err its error, next the attempt that a
\* further login() from ensureValidToken() would wait on.
Resume(cs, a, td, t, err, next) ==
    IF err # "none" THEN Fail(cs, "loginError", 0, err)
    ELSE IF cs.site = "direct"
    THEN Finish(cs, "done", [NoOutcome EXCEPT !.kind = "token", !.token = td])
    ELSE IF cs.site = "ensure" THEN SendGet(cs, td, t, a)
    ELSE IF NeedsLogin(td, t) THEN AwaitLogin(cs, next, "ensure")
    ELSE SendGet(cs, td, t, 0)

\* The auth exchange of attempt a ends with resp: performLogin() settles,
\* the finally callback runs, and every call awaiting the attempt continues
\* to its next pending promise.
LoginComplete(a, resp) ==
    LET err == LoginError(resp)
        td == TokenAfterLogin(tokenData, resp, now)
        lif1 == InFlightAfterFinally(loginInFlight)
        waiters == {c \in DOMAIN calls : calls[c].pc = "awaitLogin" /\ calls[c].waitingOn = a}
        again == /\ err = "none"
                 /\ NeedsLogin(td, now)
                 /\ \E c \in waiters : calls[c].site = "retry401"
        next == InFlightAfterLogin(lif1, authSent)
    IN  /\ a \in pending
        /\ tokenData' = td
        /\ settled' = [id |-> a, error |-> err,
                       token |-> IF err = "none" THEN td ELSE NoToken,
                       resp |-> resp, at |-> now]
        /\ IF again
           THEN /\ SentAfterLogin(lif1, authSent) <= MaxLogins
                /\ authSent' = SentAfterLogin(lif1, authSent)
                /\ loginInFlight' = next
                /\ pending' = (pending \ {a}) \cup
                                (IF authSent' > authSent THEN {authSent'} ELSE {})
           ELSE /\ authSent' = authSent
                /\ loginInFlight' = lif1
                /\ pending' = pending \ {a}
        /\ calls' = [c \in DOMAIN calls |->
                IF c \in waiters THEN Resume(calls[c], a, td, now, err, next) ELSE calls[c]]
        /\ UNCHANGED now
        /\ UNCHANGED <<arg, ret>>

Tick ==
    /\ now < MaxTicks * TickMs
    /\ now' = now + TickMs
    /\ UNCHANGED <<tokenData, loginInFlight, authSent, pending, settled, calls>>
    /\ UNCHANGED <<arg, ret>>

Next ==
    \/ \E c \in Callers : StartGet(c)
    \/ \E c \in Callers : StartLogin(c)
    \/ \E c \in Callers, status \in GetResponses : GetResponse(c, status)
    \/ \E a \in 1..MaxLogins, resp \in AuthResponses : LoginComplete(a, resp)
    \/ Tick

Spec == Init /\ [][Next]_vars
\* =================================================================== claims
\* Helpers of the claims, spelled out independently of the model's operators.
Waiting(c) == calls[c].pc = "awaitLogin"

WaitersOf(a) == {c \in Callers : Waiting(c) /\ calls[c].waitingOn = a}

\* no stored token, or one with under five minutes left at time t
Stale(td, t) == td.accessToken = "" \/ td.expiresAt - t < 300000

\* the step settles attempt a
Settles(a) == a \in pending /\ a \notin pending'

\* C1: at any time at most one login (auth POST) request is outstanding, and
\* every call waiting in login() waits on that outstanding attempt, which is
\* the one the in-flight marker holds; a login() made while an attempt is
\* outstanding sends no auth request.
C1_Inv ==
    /\ Cardinality(pending) <= 1
    /\ \A c \in Callers : Waiting(c) => pending = {calls[c].waitingOn}
    /\ \A c \in Callers : Waiting(c) => calls[c].waitingOn = loginInFlight

C1_Step ==
    (pending # {} /\ pending \subseteq pending') => authSent' = authSent

C1_SingleFlight == []C1_Inv /\ [][C1_Step]_vars

C1_Witness ==
    /\ authSent = 1
    /\ \A c \in Callers : Waiting(c) /\ calls[c].waitingOn = 1

\* C2: get() calls that all find no usable token share one login request;
\* none sends its GET while that login is outstanding; when the login
\* succeeds each of them sends its GET with the token the login produced,
\* and a call whose GET then succeeds finishes with the payload.
C2_Inv ==
    /\ \A c \in Callers :
          (calls[c].op = "get" /\ Waiting(c) /\ ~calls[c].retried) => calls[c].gets = 0
    /\ \A c, d \in Callers :
          (Waiting(c) /\ Waiting(d)) =>
              /\ calls[c].waitingOn = calls[d].waitingOn
              /\ calls[c].waitingOn \in pending

C2_Step ==
    /\ \A c \in Callers :
          (calls[c].pc = "idle" /\ calls'[c].op = "get" /\ Stale(tokenData, now)) =>
              /\ calls'[c].pc = "awaitLogin"
              /\ calls'[c].gets = 0
              /\ calls'[c].waitingOn \in pending'
              /\ (pending # {} => authSent' = authSent)
    /\ \A a \in pending : \A c \in WaitersOf(a) :
          (Settles(a) /\ calls[c].site = "ensure" /\ settled'.error = "none") =>
              /\ calls'[c].pc = "awaitGet"
              /\ calls'[c].gets = calls[c].gets + 1
              /\ calls'[c].requestToken = settled'.token.accessToken
              /\ calls'[c].requestToken = tokenData'.accessToken
    /\ \A c \in Callers :
          (calls[c].pc = "awaitGet" /\ calls'[c].lastStatus = 200 /\ calls'[c] # calls[c]) =>
              /\ calls'[c].pc = "done"
              /\ calls'[c].outcome.kind = "payload"

C2_RefreshRace == []C2_Inv /\ [][C2_Step]_vars

C2_Witness ==
    /\ authSent = 1
    /\ \A c \in Callers :
          /\ calls[c].op = "get" /\ calls[c].pc = "done"
          /\ calls[c].gets = 1 /\ calls[c].logins = 1

\* C3: all calls waiting on one login attempt receive the same outcome when
\* it settles: on failure every one of them fails with the attempt's error,
\* on success none fails and every one of them holds the attempt's token.
C3_Step ==
    \A a \in pending : Settles(a) =>
        IF settled'.error # "none"
        THEN \A c \in WaitersOf(a) :
                /\ calls'[c].pc = "failed"
                /\ calls'[c].outcome.kind = "loginError"
                /\ calls'[c].outcome.err = settled'.error
        ELSE \A c \in WaitersOf(a) :
                /\ calls'[c].pc # "failed"
                /\ calls'[c].pc = "done" => calls'[c].outcome.token = settled'.token
                /\ calls'[c].pc = "awaitGet" =>
                      calls'[c].requestToken = settled'.token.accessToken

C3_SameOutcome == [][C3_Step]_vars

C3_Witness ==
    /\ authSent = 1
    /\ settled.error = "status"
    /\ \E c, d \in Callers :
          /\ calls[c].op = "get" /\ calls[d].op = "login"
          /\ calls[c].pc = "failed" /\ calls[d].pc = "failed"
          /\ calls[c].outcome = calls[d].outcome

\* C4: once a login attempt has settled, with a token or with an error, the
\* in-flight marker no longer holds it: the marker is empty or holds an
\* outstanding attempt started later, and no call ever waits on a settled
\* attempt.
C4_MarkerCleared ==
    /\ loginInFlight # 0 => (loginInFlight \in pending /\ loginInFlight > settled.id)
    /\ \A c \in Callers : Waiting(c) => calls[c].waitingOn \in pending

C4_Witness ==
    /\ settled.id = 1
    /\ settled.error # "none"
    /\ loginInFlight = 2
    /\ \E c \in Callers : Waiting(c) /\ calls[c].waitingOn = 2
\* the step delivers a response to call c
Responds(c) == calls[c].pc = "awaitGet" /\ calls'[c] # calls[c]

\* the step delivers the first 401 of call c
First401(c) == Responds(c) /\ ~calls[c].retried /\ calls'[c].retried

\* C5 as stated: after a first 401 on the still-current token, get() makes
\* exactly one login() call, never sends more than two requests, and returns
\* the body of the re-sent request when that succeeds.
C5_Original ==
    \A c \in Callers : calls[c].on401 = "relogin" =>
        /\ calls[c].logins401 = 1
        /\ calls[c].gets <= 2
        /\ calls[c].pc = "done" => (calls[c].gets = 2 /\ calls[c].outcome.body = 2)

\* C5 (amended): after a first 401 on the still-current token, get() calls
\* login() once for the 401.  When that login fails, get() fails with its
\* error and re-sends nothing.  When it succeeds with a token that has at
\* least five minutes left, get() re-sends the request once, with that token
\* and no further login; when the new token has under five minutes left,
\* ensureValidToken() makes one more login() call before the single re-send.
\* A re-sent request that succeeds gives its decoded body as the result.
C5_Inv ==
    \A c \in Callers : calls[c].on401 = "relogin" =>
        /\ calls[c].logins401 \in {1, 2}
        /\ calls[c].gets \in {1, 2}
        /\ calls[c].pc = "done" =>
              /\ calls[c].gets = 2
              /\ calls[c].outcome.kind = "payload"
              /\ calls[c].outcome.body = 2

C5_Step ==
    /\ \A c \in Callers :
          (First401(c) /\ tokenData.accessToken = calls[c].requestToken) =>
              /\ calls'[c].pc = "awaitLogin"
              /\ calls'[c].site = "retry401"
              /\ calls'[c].logins = calls[c].logins + 1
              /\ calls'[c].logins401 = 1
              /\ calls'[c].gets = calls[c].gets
    /\ \A a \in pending : \A c \in WaitersOf(a) :
          (Settles(a) /\ calls[c].on401 = "relogin") =>
              IF settled'.error # "none"
              THEN /\ calls'[c].pc = "failed"
                   /\ calls'[c].outcome.err = settled'.error
                   /\ calls'[c].gets = 1
              ELSE IF calls[c].site = "retry401" /\ settled'.token.expiresAt - now < 300000
              THEN /\ calls'[c].pc = "awaitLogin"
                   /\ calls'[c].site = "ensure"
                   /\ calls'[c].logins401 = 2
                   /\ calls'[c].gets = 1
              ELSE /\ calls'[c].pc = "awaitGet"
                   /\ calls'[c].gets = 2
                   /\ calls'[c].logins401 = calls[c].logins401
                   /\ calls'[c].requestToken = settled'.token.accessToken

C5_Recovers == []C5_Inv /\ [][C5_Step]_vars

C5_Witness ==
    \E c \in Callers :
        /\ calls[c].on401 = "relogin"
        /\ calls[c].pc = "done"
        /\ calls[c].logins401 = 1
        /\ calls[c].gets = 2
        /\ calls[c].outcome.body = 2

\* C6 as stated: on a first 401 whose request token is no longer the current
\* token, get() calls no login() and re-sends once with the current token.
C6_OriginalStep ==
    \A c \in Callers :
        (First401(c) /\ tokenData.accessToken # calls[c].requestToken) =>
            /\ calls'[c].logins = calls[c].logins
            /\ authSent' = authSent
            /\ calls'[c].pc = "awaitGet"
            /\ calls'[c].gets = 2
            /\ calls'[c].requestToken = tokenData.accessToken

C6_Original == [][C6_OriginalStep]_vars

\* C6 (amended): on a first 401 whose request token is no longer the current
\* token, get() makes no login() call in the 401 branch and goes back to
\* ensureValidToken().  When the current token has at least five minutes
\* left, the request is re-sent once with it and no login is made; when it
\* has less, ensureValidToken() makes (or joins) one login first, and the
\* request is re-sent once with that login's token, or not at all when that
\* login fails.
C6_Inv ==
    \A c \in Callers : calls[c].on401 = "rotated" =>
        /\ calls[c].gets \in {1, 2}
        /\ calls[c].logins401 \in {0, 1}
        /\ Waiting(c) => calls[c].site = "ensure"

C6_Step ==
    /\ \A c \in Callers :
          (First401(c) /\ tokenData.accessToken # calls[c].requestToken) =>
              /\ calls'[c].on401 = "rotated"
              /\ IF tokenData.expiresAt - now < 300000
                 THEN /\ calls'[c].pc = "awaitLogin"
                      /\ calls'[c].site = "ensure"
                      /\ calls'[c].waitingOn \in pending'
                      /\ calls'[c].gets = 1
                 ELSE C6_OriginalStep
    /\ \A a \in pending : \A c \in WaitersOf(a) :
          (Settles(a) /\ calls[c].on401 = "rotated") =>
              IF settled'.error # "none"
              THEN calls'[c].pc = "failed" /\ calls'[c].gets = 1
              ELSE /\ calls'[c].pc = "awaitGet"
                   /\ calls'[c].gets = 2
                   /\ calls'[c].requestToken = tokenData'.accessToken

C6_Rotated == []C6_Inv /\ [][C6_Step]_vars

C6_Witness ==
    \E c \in Callers :
        /\ calls[c].on401 = "rotated"
        /\ calls[c].pc = "awaitGet"
        /\ calls[c].gets = 2
        /\ calls[c].logins401 = 0
        /\ calls[c].requestToken = tokenData.accessToken

\* C7: one get() call sends at most two GET requests; when the response to
\* the re-sent request is a failure status, get() fails with the API error
\* of that status, and whatever that response is, the call ends without a
\* further login and without a further request.
C7_Inv == \A c \in Callers : calls[c].gets <= 2

C7_Step ==
    \A c \in Callers : (Responds(c) /\ calls[c].retried) =>
        /\ calls'[c].pc \in {"done", "failed"}
        /\ calls'[c].gets = calls[c].gets
        /\ calls'[c].logins = calls[c].logins
        /\ authSent' = authSent
        /\ calls'[c].lastStatus \in {401, 500} =>
              /\ calls'[c].pc = "failed"
              /\ calls'[c].outcome.kind = "apiError"
              /\ calls'[c].outcome.status = calls'[c].lastStatus

C7_AtMostTwo == []C7_Inv /\ [][C7_Step]_vars

C7_Witness ==
    \E c \in Callers :
        /\ calls[c].pc = "failed"
        /\ calls[c].gets = 2
        /\ calls[c].outcome.kind = "apiError"
        /\ calls[c].outcome.status = 401

\* C8: a response with a failure status other than 401 makes get() fail at
\* once with the API error of that status: no login() call, no auth request
\* and no re-sent request follow from it.
C8_Step ==
    \A c \in Callers : (Responds(c) /\ calls'[c].lastStatus = 500) =>
        /\ calls'[c].pc = "failed"
        /\ calls'[c].outcome.kind = "apiError"
        /\ calls'[c].outcome.status = 500
        /\ calls'[c].gets = calls[c].gets
        /\ calls'[c].logins = calls[c].logins
        /\ authSent' = authSent

C8_FailsAtOnce == [][C8_Step]_vars

C8_Witness ==
    \E c \in Callers :
        /\ calls[c].pc = "failed"
        /\ calls[c].gets = 1
        /\ calls[c].logins401 = 0
        /\ calls[c].outcome.kind = "apiError"
        /\ calls[c].outcome.status = 500

\* C9 as stated: every GET carries a token with more than five minutes left
\* when the request is built.
C9_Original ==
    \A c \in Callers : calls[c].pc = "awaitGet" => calls[c].remaining > 300000

\* C9 (amended): every GET carries a token that had at least five minutes
\* left when ensureValidToken() checked it for that request, except a token
\* that a login awaited by that ensureValidToken() call has just returned:
\* that one is used without a check, whatever its lifetime.
C9_Margin ==
    \A c \in Callers : calls[c].pc = "awaitGet" =>
        \/ calls[c].remaining >= 300000
        \/ calls[c].via # 0

C9_Witness ==
    /\ \E c \in Callers :
          calls[c].pc = "awaitGet" /\ calls[c].via = 0 /\ calls[c].remaining = 300000
    /\ \E c \in Callers :
          calls[c].pc = "awaitGet" /\ calls[c].via # 0 /\ calls[c].remaining < 300000

\* C10: when an auth response arrives, the login attempt fails exactly when
\* the status is not a success or the body lacks the access token or a
\* numeric ExpiresIn, and then with a login error; otherwise it succeeds and
\* the stored token is, as a whole, the response's access token with
\* expiresAt = completion time + ExpiresIn * 1000.
C10_Step ==
    \A a \in pending : (Settles(a) /\ settled'.resp.kind = "response") =>
        LET r == settled'.resp
            bad == ~r.ok \/ r.accessToken = "" \/ ~r.numeric
        IN  /\ settled'.id = a
            /\ (settled'.error # "none") <=> bad
            /\ bad => settled'.error \in {"status", "tokenNotPresent"}
            /\ ~bad => /\ tokenData' = [accessToken |-> r.accessToken,
                                        expiresAt |-> now + r.expiresIn * 1000]
                       /\ settled'.token = tokenData'

Undef == [t |-> "undefined"]

Null == [t |-> "null"]

NaN == [t |-> "NaN"]

Str(chars) == [t |-> "string", v |-> chars]

Arr(elems) == [t |-> "array", v |-> elems]

Obj(fields) == [t |-> "object", v |-> fields]

\* A TypeError raised by a property read or a method call.
Throw == [t |-> "throw", name |-> "TypeError"]

RECURSIVE Pow10(_)
Pow10(n) == IF n = 0 THEN 1 ELSE 10 * Pow10(n - 1)

RECURSIVE Num(_, _)
Num(m, e) ==
    IF e > 0 /\ m % 10 = 0 THEN Num(m \div 10, e - 1)
    ELSE [t |-> "number", m |-> m, e |-> e]

\* The one element of a set that holds one: Only({F(x) : x \in {e}}) is F(e),
\* the way `const x = e` names a value that is worked out once.
Only(S) == CHOOSE x \in S : TRUE

IsNullish(v) == v.t \in {"undefined", "null"}

\* `!value`
Falsy(v) ==
    \/ v.t \in {"undefined", "null", "NaN"}
    \/ v.t = "string" /\ v.v = <<>>
    \/ v.t = "number" /\ v.m = 0
    \/ v.t = "boolean" /\ ~v.v

Digits == {"0", "1", "2", "3", "4", "5", "6", "7", "8", "9"}

DigitValue(c) ==
    CASE c = "0" -> 0 [] c = "1" -> 1 [] c = "2" -> 2 [] c = "3" -> 3 [] c = "4" -> 4
      [] c = "5" -> 5 [] c = "6" -> 6 [] c = "7" -> 7 [] c = "8" -> 8 [] c = "9" -> 9

RECURSIVE ToInt(_)
ToInt(ds) ==
    IF ds = <<>> THEN 0
    ELSE 10 * ToInt(SubSeq(ds, 1, Len(ds) - 1)) + DigitValue(ds[Len(ds)])

\* the length of the run of digits of s that starts at position i
RECURSIVE DigitRun(_, _)
DigitRun(s, i) ==
    IF i <= Len(s) /\ s[i] \in Digits THEN 1 + DigitRun(s, i + 1) ELSE 0

\* Number.parseFloat on a string of digits, points and minus signs: the value
\* of the longest leading decimal literal, NaN when there is none.
ParseFloat(s) ==
    LET neg    == Len(s) > 0 /\ s[1] = "-"
        i      == IF neg THEN 2 ELSE 1
        ni     == DigitRun(s, i)
        j      == i + ni
        hasDot == j <= Len(s) /\ s[j] = "."
        nf     == IF hasDot THEN DigitRun(s, j + 1) ELSE 0
        mant   == ToInt(SubSeq(s, i, j - 1) \o
                        (IF hasDot THEN SubSeq(s, j + 1, j + nf) ELSE <<>>))
    IN  IF ni + nf = 0 THEN NaN
        ELSE Num(IF neg THEN 0 - mant ELSE mant, nf)

\* Math.round: the integer nearest to x, a half going up.
MathRound(x) == Num((2 * x.m + Pow10(x.e)) \div (2 * Pow10(x.e)), 0)

\* ------------------------------------------------- display-string parsing
\* a sanitizer that also strips the minus sign
SanitizeNoMinus(chars) == SelectSeq(chars, LAMBDA c : c \in Digits \cup {"."})

\* value.replace(/[^0-9.-]/g, "")
Sanitize(chars) == SelectSeq(chars, LAMBDA c : c \in Digits \cup {".", "-"})

parseDisplayNumber(value) ==
    IF Falsy(value) THEN Null
    ELSE IF value.t # "string" THEN Throw
    ELSE LET sanitized == Sanitize(value.v)
             parsed    == ParseFloat(sanitized)
         IN  IF sanitized = <<>> THEN Null
             ELSE IF parsed.t = "number" THEN parsed ELSE Null

parseDisplayInt(value) ==
    LET parsed == parseDisplayNumber(value)
    IN  IF parsed.t = "throw" THEN parsed
        ELSE IF parsed.t = "null" THEN Null
        ELSE MathRound(parsed)

\* The display strings handed to the two parsers.
MaxDisplayLen == 4

DisplayChars == {"2", "5", ".", "-", " ", "b"}

DisplayStrings == UNION { [1..k -> DisplayChars] : k \in 0..MaxDisplayLen }

InitParse ==
    /\ ClientInit
    /\ arg \in {Undef, Null} \cup { Str(s) : s \in DisplayStrings }
    /\ ret = NotRun

CallParseDisplayNumber ==
    /\ ret = NotRun
    /\ ret' = [fn |-> "parseDisplayNumber", out |-> parseDisplayNumber(arg)]
    /\ UNCHANGED <<now, tokenData, loginInFlight, authSent, pending, settled, calls, arg>>

CallParseDisplayInt ==
    /\ ret = NotRun
    /\ ret' = [fn |-> "parseDisplayInt", out |-> parseDisplayInt(arg)]
    /\ UNCHANGED <<now, tokenData, loginInFlight, authSent, pending, settled, calls, arg>>

NextParse == CallParseDisplayNumber \/ CallParseDisplayInt

SpecParse == InitParse /\ [][NextParse]_vars

\* -------------------------------------------------------- claims C19
Count(s, c) == Len(SelectSeq(s, LAMBDA x : x = c))

\* what is left of a display string once every character other than a
\* digit, a point or a minus sign is removed
Kept(s) ==
    SelectSeq(s, LAMBDA c : c \in {"0", "1", "2", "3", "4", "5", "6", "7", "8", "9", ".", "-"})

\* s, made of digits, points and minus signs, is a decimal numeral: at most
\* one minus sign, in front; at most one point; at least one digit
Numeral(s) ==
    /\ Count(s, "-") <= 1
    /\ Count(s, "-") = 1 => s[1] = "-"
    /\ Count(s, ".") <= 1
    /\ \E i \in 1..Len(s) : s[i] \notin {".", "-"}

\* the number a decimal numeral denotes
NumeralValue(s) ==
    LET ds   == SelectSeq(s, LAMBDA c : c \notin {".", "-"})
        dot  == IF Count(s, ".") = 0 THEN Len(s)
                ELSE CHOOSE i \in 1..Len(s) : s[i] = "."
        mant == ToInt(ds)
    IN  Num(IF Count(s, "-") = 1 THEN 0 - mant ELSE mant, Len(s) - dot)

\* the longest leading part of s that is a decimal numeral (<<>> if none)
LeadingNumeral(s) ==
    LET ks == {k \in 1..Len(s) : Numeral(SubSeq(s, 1, k))}
    IN  IF ks = {} THEN <<>>
        ELSE SubSeq(s, 1, CHOOSE k \in ks : \A j \in ks : j <= k)

\* n is x rounded to the nearest integer, a half going up
RoundedFrom(n, x) ==
    /\ n.t = "number" /\ n.e = 0
    /\ 2 * Pow10(x.e) * n.m - 2 * x.m > 0 - Pow10(x.e)
    /\ 2 * Pow10(x.e) * n.m - 2 * x.m <= Pow10(x.e)

\* parseDisplayInt relates to parseDisplayNumber as the claim says
IntFollowsNumber ==
    ret.fn = "parseDisplayInt" =>
        LET x == parseDisplayNumber(arg)
        IN  /\ ret.out.t # "throw"
            /\ x.t = "null" => ret.out = Null
            /\ x.t = "number" => RoundedFrom(ret.out, x)

\* C19 as stated: parseDisplayNumber returns null when the input is absent
\* or empty, when nothing remains after the removal, or when the remainder
\* is not a number, and otherwise the number the remainder denotes.
C19_Original ==
    ret.fn = "parseDisplayNumber" =>
        IF arg.t # "string" \/ arg.v = <<>> \/ Kept(arg.v) = <<>> \/ ~Numeral(Kept(arg.v))
        THEN ret.out = Null
        ELSE ret.out = NumeralValue(Kept(arg.v))

\* C19: parseDisplayNumber removes every character other than digits, "."
\* and "-"; it returns null when the input is absent or empty or when the
\* remainder does not begin with a decimal numeral, and otherwise the number
\* denoted by the longest numeral the remainder begins with.  parseDisplayInt
\* is null whenever parseDisplayNumber is, and otherwise that number rounded
\* to the nearest integer.  Neither throws for a string.
C19_Parse ==
    /\ ret.fn = "parseDisplayNumber" =>
           IF arg.t # "string" \/ LeadingNumeral(Kept(arg.v)) = <<>>
           THEN ret.out = Null
           ELSE ret.out = NumeralValue(LeadingNumeral(Kept(arg.v)))
    /\ IntFollowsNumber

\* "25 b" parsed to 25 by parseDisplayNumber
C19_Witness ==
    /\ arg = Str(<<"2", "5", " ", "b">>)
    /\ ret = [fn |-> "parseDisplayNumber", out |-> Num(25, 0)]

\* ------------------------------------------------------------- durations
\* A Date object holding a valid instant, in milliseconds.
Date(ms) == [t |-> "date", ms |-> ms]

DigitChar(d) ==
    CASE d = 0 -> "0" [] d = 1 -> "1" [] d = 2 -> "2" [] d = 3 -> "3" [] d = 4 -> "4"
      [] d = 5 -> "5" [] d = 6 -> "6" [] d = 7 -> "7" [] d = 8 -> "8" [] d = 9 -> "9"

\* `${n}` for a non-negative integer n
RECURSIVE Decimal(_)
Decimal(n) ==
    IF n < 10 THEN <<DigitChar(n)>> ELSE Decimal(n \div 10) \o <<DigitChar(n % 10)>>

\* parts.join(" ")
RECURSIVE Join(_)
Join(parts) ==
    IF parts = <<>> THEN <<>>
    ELSE IF Len(parts) = 1 THEN parts[1]
    ELSE parts[1] \o <<" ">> \o Join(Tail(parts))

\* whole seconds taken with Math.floor
TotalSecondsFloor(diffMs) == diffMs \div 1000

\* Math.round(diffMs / 1000)
TotalSeconds(diffMs) == (2 * diffMs + 1000) \div 2000

formatDurationBetween(start, end) ==
    IF start.t # "date" \/ end.t # "date" THEN Null
    ELSE LET diffMs       == end.ms - start.ms
             totalSeconds == TotalSeconds(diffMs)
             hours        == totalSeconds \div 3600
             minutes      == (totalSeconds % 3600) \div 60
             seconds      == totalSeconds % 60
             parts        ==
                 (IF hours > 0 THEN <<Decimal(hours) \o <<"h">>>> ELSE <<>>)
                 \o (IF minutes > 0 \/ hours > 0 THEN <<Decimal(minutes) \o <<"m">>>> ELSE <<>>)
                 \o (IF seconds > 0 /\ hours = 0 THEN <<Decimal(seconds) \o <<"s">>>> ELSE <<>>)
         IN  IF diffMs <= 0 THEN Null
             ELSE IF Len(parts) > 0 THEN Str(Join(parts))
             ELSE Str(<<"0", "m">>)

\* The instants, in milliseconds, of the dates handed to the formatter.
Instants ==
    {0, 400, 500, 45000, 59500, 60000, 300000, 345000,
     3599600, 3600000, 3900000, 3945000}

InitDuration ==
    /\ ClientInit
    /\ arg \in [start : {Null} \cup {Date(i) : i \in Instants},
                end : {Null} \cup {Date(i) : i \in Instants}]
    /\ ret = NotRun

CallFormatDurationBetween ==
    /\ ret = NotRun
    /\ ret' = [fn |-> "formatDurationBetween",
               out |-> formatDurationBetween(arg.start, arg.end)]
    /\ UNCHANGED <<now, tokenData, loginInFlight, authSent, pending, settled, calls, arg>>

SpecDuration == InitDuration /\ [][CallFormatDurationBetween]_vars

\* -------------------------------------------------------- claims C20
\* the interval between the two dates of arg, in milliseconds
IntervalMs == arg.end.ms - arg.start.ms

\* T is the interval d rounded to the nearest whole second
WholeSeconds(T, d) == 1000 * T - d > 0 - 500 /\ 1000 * T - d <= 500

\* start or end is missing, or end is not later than start
NoInterval == arg.start = Null \/ arg.end = Null \/ IntervalMs <= 0

\* C20 as stated: null exactly when a date is missing or end is not later
\* than start; otherwise hours and minutes when the interval is one hour or
\* more, minutes and seconds below one hour, seconds alone below one minute.
C20_Original ==
    ret.fn = "formatDurationBetween" =>
        IF NoInterval THEN ret.out = Null
        ELSE \E T \in 0..4000 :
               /\ WholeSeconds(T, IntervalMs)
               /\ ret.out = Str(
                    IF IntervalMs >= 3600000
                    THEN Decimal(T \div 3600) \o <<"h", " ">> \o Decimal((T % 3600) \div 60) \o <<"m">>
                    ELSE IF IntervalMs >= 60000
                    THEN Decimal(T \div 60) \o <<"m", " ">> \o Decimal(T % 60) \o <<"s">>
                    ELSE Decimal(T) \o <<"s">>)

\* C20: formatDurationBetween returns null exactly when start or end is
\* missing or end is not later than start.  Otherwise, with T the interval
\* rounded to whole seconds, it returns "<h>h <m>m" when T is an hour or
\* more, "<m>m <s>s" when T is a minute or more (the seconds part left out
\* when it is 0), "<s>s" when T is under a minute, and "0m" when T is 0.
C20_Duration ==
    ret.fn = "formatDurationBetween" =>
        IF NoInterval THEN ret.out = Null
        ELSE \E T \in 0..4000 :
               /\ WholeSeconds(T, IntervalMs)
               /\ ret.out = Str(
                    IF T >= 3600
                    THEN Decimal(T \div 3600) \o <<"h", " ">> \o Decimal((T % 3600) \div 60) \o <<"m">>
                    ELSE IF T >= 60
                    THEN Decimal(T \div 60) \o <<"m">> \o
                         (IF T % 60 = 0 THEN <<>> ELSE <<" ">> \o Decimal(T % 60) \o <<"s">>)
                    ELSE IF T >= 1 THEN Decimal(T) \o <<"s">>
                    ELSE <<"0", "m">>)

\* an interval of 1 h 05 min formatted as "1h 5m"
C20_Witness ==
    /\ arg = [start |-> Date(0), end |-> Date(3900000)]
    /\ ret = [fn |-> "formatDurationBetween", out |-> Str(<<"1", "h", " ", "5", "m">>)]

\* ------------------------------------------------------------- key stats
LowerCase ==
    <<"a", "b", "c", "d", "e", "f", "g", "h", "i", "j", "k", "l", "m",
      "n", "o", "p", "q", "r", "s", "t", "u", "v", "w", "x", "y", "z">>

UpperCase ==
    <<"A", "B", "C", "D", "E", "F", "G", "H", "I", "J", "K", "L", "M",
      "N", "O", "P", "Q", "R", "S", "T", "U", "V", "W", "X", "Y", "Z">>

\* the letter tables as maps from a letter to its other case
UpperMap == [c \in {LowerCase[i] : i \in 1..26} |->
                UpperCase[CHOOSE i \in 1..26 : LowerCase[i] = c]]

LowerMap == [c \in {UpperCase[i] : i \in 1..26} |->
                LowerCase[CHOOSE i \in 1..26 : UpperCase[i] = c]]

UpperOf(c) == IF c \in DOMAIN UpperMap THEN UpperMap[c] ELSE c

LowerOf(c) == IF c \in DOMAIN LowerMap THEN LowerMap[c] ELSE c

\* String.prototype.toUpperCase and toLowerCase
ToUpperCase(chars) == [i \in 1..Len(chars) |-> UpperOf(chars[i])]

ToLowerCase(chars) == [i \in 1..Len(chars) |-> LowerOf(chars[i])]

\* String.prototype.includes
Includes(chars, sub) ==
    \E i \in 1..(Len(chars) - Len(sub) + 1) : SubSeq(chars, i, i + Len(sub) - 1) = sub

\* The string literals the code compares keys, titles and discriminators
\* with: those it tests characters of as character sequences, those it
\* compares whole as string values.
Tag ==
    [ WEIGHT |-> <<"W", "E", "I", "G", "H", "T">>,
      BODY_WEIGHT |-> <<"B", "O", "D", "Y", "_", "W", "E", "I", "G", "H", "T">>,
      WEIGHT_LBS |-> <<"W", "E", "I", "G", "H", "T", "_", "L", "B", "S">>,
      WEIGHT_KG |-> <<"W", "E", "I", "G", "H", "T", "_", "K", "G">>,
      BODY_MASS |-> <<"B", "O", "D", "Y", "_", "M", "A", "S", "S">>,
      SLEEP |-> <<"S", "L", "E", "E", "P">>,
      OVERVIEW |-> Str(<<"O", "V", "E", "R", "V", "I", "E", "W">>),
      ITEMS_CARD |-> Str(<<"I", "T", "E", "M", "S", "_", "C", "A", "R", "D">>),
      ACTIVITY |-> Str(<<"A", "C", "T", "I", "V", "I", "T", "Y">>),
      KEY_STATISTIC |-> Str(<<"K", "E", "Y", "_", "S", "T", "A", "T", "I", "S", "T", "I", "C">>),
      SCORE_GAUGE |-> Str(<<"S", "C", "O", "R", "E", "_", "G", "A", "U", "G", "E">>),
      CONTRIBUTORS_TILE |-> Str(<<"C", "O", "N", "T", "R", "I", "B", "U", "T", "O", "R", "S", "_", "T", "I", "L", "E">>),
      CONTRIBUTORS_TILE_IN_SLEEP_EFFICIENCY |-> Str(<<"C", "O", "N", "T", "R", "I", "B", "U", "T", "O", "R", "S", "_", "T", "I", "L", "E", "_", "I", "N", "_", "S", "L", "E", "E", "P", "_", "E", "F", "F", "I", "C", "I", "E", "N", "C", "Y">>),
      CONTRIBUTORS_TILE_HOURS_V_NEEDED |-> Str(<<"C", "O", "N", "T", "R", "I", "B", "U", "T", "O", "R", "S", "_", "T", "I", "L", "E", "_", "H", "O", "U", "R", "S", "_", "V", "_", "N", "E", "E", "D", "E", "D">>),
      DETAILS_GRAPHING_CARD |-> Str(<<"D", "E", "T", "A", "I", "L", "S", "_", "G", "R", "A", "P", "H", "I", "N", "G", "_", "C", "A", "R", "D">>),
      hours_of_sleep |-> Str(<<"h", "o", "u", "r", "s", "_", "o", "f", "_", "s", "l", "e", "e", "p">>),
      BAR_GRAPH_CARD |-> Str(<<"B", "A", "R", "_", "G", "R", "A", "P", "H", "_", "C", "A", "R", "D">>),
      REM_SLEEP |-> Str(<<"R", "E", "M", "_", "S", "L", "E", "E", "P">>),
      SWS_SLEEP |-> Str(<<"S", "W", "S", "_", "S", "L", "E", "E", "P">>),
      LIGHT_SLEEP |-> Str(<<"L", "I", "G", "H", "T", "_", "S", "L", "E", "E", "P">>) ]

preferredKeys == <<Tag.WEIGHT, Tag.BODY_WEIGHT, Tag.WEIGHT_LBS, Tag.WEIGHT_KG, Tag.BODY_MASS>>

\* The key stats table is a Record filled in insertion order: a sequence of
\* entries with distinct keys.  keyStats[key]:
StatAt(keyStats, key) ==
    IF \E i \in 1..Len(keyStats) : keyStats[i].key = key
    THEN keyStats[CHOOSE i \in 1..Len(keyStats) : keyStats[i].key = key].stat
    ELSE Undef

\* the first index of seq that satisfies Test, 0 if none
FirstIndex(seq, Test(_)) ==
    IF \E i \in 1..Len(seq) : Test(seq[i])
    THEN CHOOSE i \in 1..Len(seq) : Test(seq[i]) /\ \A j \in 1..(i - 1) : ~Test(seq[j])
    ELSE 0

\* getWeightStat without the loop over the preferred keys
getWeightStatScanOnly(keyStats) ==
    LET hit == FirstIndex(keyStats, LAMBDA en : Includes(ToUpperCase(en.key), Tag.WEIGHT))
    IN  IF hit > 0 THEN keyStats[hit].stat ELSE Null

getWeightStat(keyStats) ==
    LET pref == FirstIndex(preferredKeys, LAMBDA key : ~Falsy(StatAt(keyStats, key)))
        hit  == FirstIndex(keyStats, LAMBDA en : Includes(ToUpperCase(en.key), Tag.WEIGHT))
    IN  IF pref > 0 THEN StatAt(keyStats, preferredKeys[pref])
        ELSE IF hit > 0 THEN keyStats[hit].stat
        ELSE Null

\* The tables handed to getWeightStat: up to MaxStats distinct trend keys, the
\* stat at position i showing the display string "i".
MaxStats == 3

TrendKeys ==
    {Tag.WEIGHT, Tag.BODY_WEIGHT, Tag.WEIGHT_KG, Tag.BODY_MASS,
     <<"l", "e", "a", "n", "_", "W", "e", "i", "g", "h", "t">>, <<"W", "E", "I", "G", "H">>, <<"H", "R", "V">>}

KeyStat(i) == Obj([current |-> Str(Decimal(i)), thirtyDay |-> Null])

KeyStatsTables ==
    { [i \in 1..Len(ks) |-> [key |-> ks[i], stat |-> KeyStat(i)]] :
        ks \in { q \in UNION { [1..n -> TrendKeys] : n \in 0..MaxStats } :
                   \A i, j \in 1..Len(q) : i # j => q[i] # q[j] } }

InitWeight ==
    /\ ClientInit
    /\ arg \in KeyStatsTables
    /\ ret = NotRun

CallGetWeightStat ==
    /\ ret = NotRun
    /\ ret' = [fn |-> "getWeightStat", out |-> getWeightStat(arg)]
    /\ UNCHANGED <<now, tokenData, loginInFlight, authSent, pending, settled, calls, arg>>

SpecWeight == InitWeight /\ [][CallGetWeightStat]_vars

\* -------------------------------------------------------- claims C13
\* the key contains W-E-I-G-H-T in a row, each letter in either case
ContainsWeight(key) ==
    \E i \in 1..(Len(key) - 5) :
        /\ key[i] \in {"W", "w"}     /\ key[i + 1] \in {"E", "e"}
        /\ key[i + 2] \in {"I", "i"} /\ key[i + 3] \in {"G", "g"}
        /\ key[i + 4] \in {"H", "h"} /\ key[i + 5] \in {"T", "t"}

\* the five preferred keys, in order of preference
Preferred ==
    <<<<"W", "E", "I", "G", "H", "T">>, <<"B", "O", "D", "Y", "_", "W", "E", "I", "G", "H", "T">>,
      <<"W", "E", "I", "G", "H", "T", "_", "L", "B", "S">>, <<"W", "E", "I", "G", "H", "T", "_", "K", "G">>,
      <<"B", "O", "D", "Y", "_", "M", "A", "S", "S">>>>

\* the positions of the table arg whose key is a preferred key
ExactAt(p) == {i \in 1..Len(arg) : arg[i].key = Preferred[p]}

\* C13: getWeightStat returns the stat of the first of WEIGHT, BODY_WEIGHT,
\* WEIGHT_LBS, WEIGHT_KG, BODY_MASS that is a key of the table; when none of
\* them is, the first stat in table order whose key contains WEIGHT in any
\* letter case; when there is none either, null.  An exact preferred key
\* wins over a key that merely contains WEIGHT wherever the two stand.
C13_WeightStat ==
    ret.fn = "getWeightStat" =>
        LET ps == {p \in 1..5 : ExactAt(p) # {}}
            cs == {i \in 1..Len(arg) : ContainsWeight(arg[i].key)}
        IN  IF ps # {}
            THEN \E p \in ps : /\ \A q \in ps : p <= q
                               /\ \E i \in ExactAt(p) : ret.out = arg[i].stat
            ELSE IF cs # {}
            THEN \E i \in cs : (\A j \in cs : i <= j) /\ ret.out = arg[i].stat
            ELSE ret.out = Null

\* a table whose first key merely contains WEIGHT and whose second is the
\* preferred BODY_MASS: the stat of BODY_MASS is returned
C13_Witness ==
    /\ ret.fn = "getWeightStat"
    /\ Len(arg) = 2
    /\ arg[1].key = <<"l", "e", "a", "n", "_", "W", "e", "i", "g", "h", "t">>
    /\ arg[2].key = <<"B", "O", "D", "Y", "_", "M", "A", "S", "S">>
    /\ ret.out = arg[2].stat

\* ------------------------------------------------------------ timestamps
\* The time value of a Date counts milliseconds from 2024-01-01T00:00:00Z
\* instead of 1970: only differences and calendar fields of time values are
\* used, and the count stays inside TLC's integers.
DaysFromCivil(y, m, d) ==
    LET y1  == IF m <= 2 THEN y - 1 ELSE y
        era == y1 \div 400
        yoe == y1 - era * 400
        mp  == IF m > 2 THEN m - 3 ELSE m + 9
        doy == (153 * mp + 2) \div 5 + d - 1
        doe == yoe * 365 + yoe \div 4 - yoe \div 100 + doy
    IN  era * 146097 + doe - 719468

CivilFromDays(z) ==
    LET z1  == z + 719468
        era == z1 \div 146097
        doe == z1 - era * 146097
        yoe == (doe - doe \div 1460 + doe \div 36524 - doe \div 146096) \div 365
        doy == doe - (365 * yoe + yoe \div 4 - yoe \div 100)
        mp  == (5 * doy + 2) \div 153
        d   == doy - (153 * mp + 2) \div 5 + 1
        m   == IF mp < 10 THEN mp + 3 ELSE mp - 9
    IN  [year |-> yoe + era * 400 + (IF m <= 2 THEN 1 ELSE 0), month |-> m, day |-> d]

EpochDay == DaysFromCivil(2024, 1, 1)

MsPerDay == 24 * 60 * 60 * 1000

\* The machine's zone, minutes east of UTC (getTimezoneOffset negated).
MachineOffset == 0 - 300

AllDigits(s, from, to) == \A i \in from..to : s[i] \in Digits

NumAt(s, from, to) == ToInt(SubSeq(s, from, to))

\* raw.replace(/([+-]\d{2})(\d{2})$/, "$1:$2")
InsertColon(chars) ==
    LET n == Len(chars)
    IN  IF n >= 5 /\ chars[n - 4] \in {"+", "-"} /\ AllDigits(chars, n - 3, n)
        THEN SubSeq(chars, 1, n - 2) \o <<":">> \o SubSeq(chars, n - 1, n)
        ELSE chars

normalizeWhoopTimestamp(raw) ==
    IF Falsy(raw) THEN Null
    ELSE IF raw.t # "string" THEN Throw
    ELSE Str(InsertColon(raw.v))

\* new Date(string) for the date-time format of ECMAScript:
\* YYYY-MM-DDTHH:mm:ss, an optional .sss, then Z, +HH:mm, -HH:mm or nothing
\* (local time).  Any other string gives an invalid Date (NaN).
DateParse(s) ==
    LET n       == Len(s)
        shapeOk == /\ n >= 19
                   /\ AllDigits(s, 1, 4) /\ s[5] = "-" /\ AllDigits(s, 6, 7)
                   /\ s[8] = "-" /\ AllDigits(s, 9, 10) /\ s[11] = "T"
                   /\ AllDigits(s, 12, 13) /\ s[14] = ":" /\ AllDigits(s, 15, 16)
                   /\ s[17] = ":" /\ AllDigits(s, 18, 19)
        hasMs   == n >= 23 /\ s[20] = "." /\ AllDigits(s, 21, 23)
        zone    == SubSeq(s, IF hasMs THEN 24 ELSE 20, n)
        zoneOk  == \/ zone = <<>>
                   \/ zone = <<"Z">>
                   \/ /\ Len(zone) = 6 /\ zone[1] \in {"+", "-"} /\ zone[4] = ":"
                      /\ AllDigits(zone, 2, 3) /\ AllDigits(zone, 5, 6)
                      /\ NumAt(zone, 2, 3) <= 23 /\ NumAt(zone, 5, 6) <= 59
        offset  == IF zone = <<>> THEN MachineOffset
                   ELSE IF zone = <<"Z">> THEN 0
                   ELSE (IF zone[1] = "-" THEN 0 - 1 ELSE 1)
                        * (NumAt(zone, 2, 3) * 60 + NumAt(zone, 5, 6))
        fieldOk == /\ NumAt(s, 6, 7) \in 1..12 /\ NumAt(s, 9, 10) \in 1..31
                   /\ NumAt(s, 12, 13) <= 23 /\ NumAt(s, 15, 16) <= 59
                   /\ NumAt(s, 18, 19) <= 59
        days    == DaysFromCivil(NumAt(s, 1, 4), NumAt(s, 6, 7), NumAt(s, 9, 10)) - EpochDay
        minutes == (days * 24 + NumAt(s, 12, 13)) * 60 + NumAt(s, 15, 16) - offset
    IN  IF shapeOk /\ zoneOk /\ fieldOk
        THEN Date(minutes * 60000 + NumAt(s, 18, 19) * 1000
                  + (IF hasMs THEN NumAt(s, 21, 23) ELSE 0))
        ELSE NaN

parseDate(raw) ==
    Only({ IF normalized.t = "throw" THEN Throw
           ELSE IF Falsy(normalized) THEN Null
           ELSE Only({ IF parsed.t = "NaN" THEN Null ELSE parsed :
                       parsed \in {DateParse(normalized.v)} }) :
           normalized \in {normalizeWhoopTimestamp(raw)} })

\* `${n}`.padStart(width, "0")
PadStart(n, width) ==
    LET ds == Decimal(n)
    IN  [i \in 1..(width - Len(ds)) |-> "0"] \o ds

\* the calendar fields of time value ms seen offset minutes east of UTC
Fields(ms, offset) ==
    LET local == ms + offset * 60000
        day   == local \div MsPerDay
        tod   == local % MsPerDay
        civil == CivilFromDays(day + EpochDay)
    IN  [year |-> civil.year, month |-> civil.month, day |-> civil.day,
         hour |-> tod \div 3600000, minute |-> (tod \div 60000) % 60,
         second |-> (tod \div 1000) % 60, milli |-> tod % 1000]

\* Date.prototype.toISOString, for the years 0000 to 9999
toISOString(date) ==
    Only({ Str(PadStart(f.year, 4) \o <<"-">> \o PadStart(f.month, 2) \o <<"-">>
               \o PadStart(f.day, 2) \o <<"T">> \o PadStart(f.hour, 2) \o <<":">>
               \o PadStart(f.minute, 2) \o <<":">> \o PadStart(f.second, 2) \o <<".">>
               \o PadStart(f.milli, 3) \o <<"Z">>) :
           f \in {Fields(date.ms, 0)} })

toLocalIso(raw) ==
    LET absOffset == IF MachineOffset >= 0 THEN MachineOffset ELSE 0 - MachineOffset
    IN  Only({
        IF parsed.t = "throw" THEN Throw
        ELSE IF parsed.t = "null" THEN Null
        ELSE Only({
            Str(Decimal(f.year) \o <<"-">> \o PadStart(f.month, 2) \o <<"-">>
                \o PadStart(f.day, 2) \o <<"T">> \o PadStart(f.hour, 2) \o <<":">>
                \o PadStart(f.minute, 2) \o <<":">> \o PadStart(f.second, 2)
                \o <<IF MachineOffset >= 0 THEN "+" ELSE "-">>
                \o PadStart(absOffset \div 60, 2) \o <<":">> \o PadStart(absOffset % 60, 2)) :
            f \in {Fields(parsed.ms, MachineOffset)} }) :
        parsed \in {parseDate(raw)} })

\* ------------------------------------------------------- tree navigation
IsArray(v) == v.t = "array"

IsString(v) == v.t = "string"

\* o.k for an o that is neither null nor undefined
Prop(o, k) == IF o.t = "object" /\ k \in DOMAIN o.v THEN o.v[k] ELSE Undef

\* o?.k
Opt(o, k) == IF IsNullish(o) THEN Undef ELSE Prop(o, k)

\* o?.k1?.k2 ... along the keys ks
RECURSIVE Path(_, _)
Path(o, ks) == IF ks = <<>> THEN o ELSE Path(Opt(o, Head(ks)), Tail(ks))

\* typeof v === "string" ? v : null
StringOrNull(v) == IF IsString(v) THEN v ELSE Null

\* The elements F yields for each element of seq, in order.
FlatMap(seq, F(_)) ==
    LET f[i \in 0..Len(seq)] == IF i = 0 THEN <<>> ELSE f[i - 1] \o F(seq[i])
    IN  f[Len(seq)]

\* the first element of seq that satisfies Hit, undefined if none
Find(seq, Hit(_)) ==
    IF FirstIndex(seq, Hit) > 0 THEN seq[FirstIndex(seq, Hit)] ELSE Undef

\* What `for (const section of sections) { if (!Array.isArray(section.items))
\* continue; for (const item of section.items) ... }` visits, in order: the
\* items of each section, and Throw where `section.items` is read off a null
\* or undefined section.
SectionItems(sections) ==
    FlatMap(sections, LAMBDA section :
        IF IsNullish(section) THEN <<Throw>>
        ELSE IF IsArray(Prop(section, "items")) THEN Prop(section, "items").v
        ELSE <<>>)

Threw(seq) == \E i \in 1..Len(seq) : seq[i].t = "throw"

getOverviewPillar(overview) ==
    IF ~IsArray(Opt(overview, "pillars")) THEN Null
    ELSE LET pillar == Find(Opt(overview, "pillars").v,
                            LAMBDA pl : Opt(pl, "type") = Tag.OVERVIEW)
         IN  IF IsNullish(pillar) THEN Null ELSE pillar

\* the record pushed for one ACTIVITY entry
ActivityEntry(activity) ==
    Obj([ title |-> StringOrNull(Path(activity, <<"content", "title">>)),
          type  |-> StringOrNull(Path(activity, <<"content", "type">>)),
          start |-> StringOrNull(Path(activity, <<"content", "during", "lower_endpoint">>)),
          end   |-> StringOrNull(Path(activity, <<"content", "during", "upper_endpoint">>)) ])

\* the ACTIVITY entries among the elements visited, Throw passed through
ActivityEntries(visited) ==
    FlatMap(visited, LAMBDA activity :
        IF activity.t = "throw" THEN <<Throw>>
        ELSE IF Opt(activity, "type") # Tag.ACTIVITY THEN <<>>
        ELSE <<ActivityEntry(activity)>>)

\* the elements of the ITEMS_CARD items among the items visited
CardItems(visited) ==
    FlatMap(visited, LAMBDA item :
        IF item.t = "throw" THEN <<Throw>>
        ELSE IF Opt(item, "type") # Tag.ITEMS_CARD
                \/ ~IsArray(Path(item, <<"content", "items">>)) THEN <<>>
        ELSE Path(item, <<"content", "items">>).v)

\* Both return the array of entries, or Throw.
getActivitiesFromOverview(overview) ==
    LET overviewPillar == getOverviewPillar(overview)
    IN  IF Falsy(overviewPillar) \/ ~IsArray(Prop(overviewPillar, "sections")) THEN Arr(<<>>)
        ELSE LET output == ActivityEntries(CardItems(SectionItems(Prop(overviewPillar, "sections").v)))
             IN  IF Threw(output) THEN Throw ELSE Arr(output)

getActivitiesFromStrain(strain) ==
    IF ~IsArray(Opt(strain, "sections")) THEN Arr(<<>>)
    ELSE LET output == ActivityEntries(SectionItems(Opt(strain, "sections").v))
         IN  IF Threw(output) THEN Throw ELSE Arr(output)

\* -------------------------------------------------------------- workouts
Whitespace == {" "}

\* raw.replace(/[_-]+/g, " ")
ReplaceSeparators(chars) ==
    LET sep(i) == chars[i] \in {"_", "-"}
        f[i \in 0..Len(chars)] ==
            IF i = 0 THEN <<>>
            ELSE f[i - 1] \o (IF ~sep(i) THEN <<chars[i]>>
                              ELSE IF i > 1 /\ sep(i - 1) THEN <<>>
                              ELSE <<" ">>)
    IN  f[Len(chars)]

\* String.prototype.trim
Trim(chars) ==
    LET inked == {i \in 1..Len(chars) : chars[i] \notin Whitespace}
    IN  IF inked = {} THEN <<>>
        ELSE SubSeq(chars, CHOOSE i \in inked : \A j \in inked : i <= j,
                           CHOOSE i \in inked : \A j \in inked : j <= i)

\* split(/\s+/) of a trimmed string
Split(chars) ==
    LET starts(i) == chars[i] \notin Whitespace /\ (i = 1 \/ chars[i - 1] \in Whitespace)
        endOf(i)  == CHOOSE j \in i..Len(chars) :
                        /\ \A k \in i..j : chars[k] \notin Whitespace
                        /\ (j = Len(chars) \/ chars[j + 1] \in Whitespace)
    IN  IF chars = <<>> THEN << <<>> >>
        ELSE FlatMap([i \in 1..Len(chars) |-> i],
                     LAMBDA i : IF starts(i) THEN <<SubSeq(chars, i, endOf(i))>> ELSE <<>>)

\* word.charAt(0).toUpperCase() + word.slice(1)
Capitalize(word) ==
    IF word = <<>> THEN <<>> ELSE <<UpperOf(word[1])>> \o Tail(word)

normalizeWorkoutName(raw) ==
    IF Falsy(raw) THEN Str(<<"W", "o", "r", "k", "o", "u", "t">>)
    ELSE IF raw.t # "string" THEN Throw
    ELSE LET words == Split(ToLowerCase(Trim(ReplaceSeparators(raw.v))))
         IN  Str(Join([i \in 1..Len(words) |-> Capitalize(words[i])]))

\* `${value ?? ""}` for a string or null
Template(value) == IF IsNullish(value) THEN <<>> ELSE value.v

\* a filter that skips the SLEEP entries only
SkippedSleepOnly(activity) ==
    \/ ToUpperCase(Template(activity.v.title)) = Tag.SLEEP
    \/ ToUpperCase(Template(activity.v.type)) = Tag.SLEEP

\* `if (!title || title === "SLEEP" || type === "SLEEP") continue`
Skipped(activity) ==
    LET title == ToUpperCase(Template(activity.v.title))
        type  == ToUpperCase(Template(activity.v.type))
    IN  title = <<>> \/ title = Tag.SLEEP \/ type = Tag.SLEEP

\* startDate ? startDate.toISOString() : null
IsoOrNull(date) == IF date.t = "date" THEN toISOString(date) ELSE Null

\* the entry built for one activity that is not skipped
Workout(activity) ==
    Only({ [ name     |-> normalizeWorkoutName(activity.v.title),
             start    |-> IsoOrNull(startDate),
             end      |-> IsoOrNull(endDate),
             duration |-> formatDurationBetween(startDate, endDate) ] :
           startDate \in {parseDate(activity.v.start)},
           endDate   \in {parseDate(activity.v.end)} })

\* a key made of the name alone
WorkoutKeyNameOnly(w) == w.name.v

\* `${name}|${start ?? ""}|${end ?? ""}`
WorkoutKey(w) == w.name.v \o <<"|">> \o Template(w.start) \o <<"|">> \o Template(w.end)

\* the `seen` set: an entry is pushed unless an earlier one has its key
Deduplicate(ws) ==
    LET key == [i \in 1..Len(ws) |-> WorkoutKey(ws[i])]
    IN  FlatMap([i \in 1..Len(ws) |-> i],
                LAMBDA i : IF \E j \in 1..(i - 1) : key[j] = key[i]
                           THEN <<>> ELSE <<ws[i]>>)

\* The collation order of the characters of an ISO timestamp.
CollationRank(c) ==
    CASE c = "-" -> 1 [] c = ":" -> 2 [] c = "." -> 3
      [] c \in Digits -> 4 + DigitValue(c)
      [] c = "T" -> 20 [] c = "Z" -> 21

\* a.localeCompare(b) for two such strings: negative, zero or positive
LocaleCompare(a, b) ==
    LET n     == IF Len(a) < Len(b) THEN Len(a) ELSE Len(b)
        diffs == {i \in 1..n : a[i] # b[i]}
        first == CHOOSE i \in diffs : \A j \in diffs : i <= j
    IN  IF diffs = {} THEN Len(a) - Len(b)
        ELSE CollationRank(a[first]) - CollationRank(b[first])

\* the comparator with its operands swapped
CompareStartDescending(a, b) == LocaleCompare(Template(b.start), Template(a.start))

\* (a, b) => (a.start ?? "").localeCompare(b.start ?? "")
CompareStart(a, b) == LocaleCompare(Template(a.start), Template(b.start))

\* Array.prototype.sort with that comparator: a stable sort
SortWorkouts(ws) ==
    LET insert(sorted, w) ==
            LET k == Cardinality({j \in 1..Len(sorted) : CompareStart(sorted[j], w) <= 0})
            IN  SubSeq(sorted, 1, k) \o <<w>> \o SubSeq(sorted, k + 1, Len(sorted))
        f[i \in 0..Len(ws)] == IF i = 0 THEN <<>> ELSE insert(f[i - 1], ws[i])
    IN  f[Len(ws)]

buildWorkouts(overview, strain) ==
    LET fromOverview == getActivitiesFromOverview(overview)
        fromStrain   == getActivitiesFromStrain(strain)
        combined     == fromOverview.v \o fromStrain.v
        workouts     == Deduplicate(FlatMap(combined, LAMBDA activity :
                            IF Skipped(activity) THEN <<>> ELSE <<Workout(activity)>>))
        sorted       == SortWorkouts(workouts)
    IN  IF fromOverview.t = "throw" \/ fromStrain.t = "throw" THEN Throw
        ELSE Arr([i \in 1..Len(sorted) |-> Obj(sorted[i])])

\* The payloads handed to buildWorkouts: well-formed trees that hold up to
\* MaxActivities entries in all, drawn from SourceItems and split between the
\* overview's ITEMS_CARD and the strain payload's section.
MaxActivities == 3

During(lower, upper) == Obj([lower_endpoint |-> lower, upper_endpoint |-> upper])

ActivityItem(title, type, during) ==
    Obj([type |-> Tag.ACTIVITY, content |-> Obj([title |-> title, type |-> type, during |-> during])])

EarlyMorning == Str(<<"2", "0", "2", "4", "-", "0", "1", "-", "0", "1", "T", "0", "3", ":", "3", "0", ":", "0", "0", ".", "0", "0", "0", "+", "0", "0", "0", "0">>)

EarlyMorningParis == Str(<<"2", "0", "2", "4", "-", "0", "1", "-", "0", "1", "T", "0", "4", ":", "3", "0", ":", "0", "0", ".", "0", "0", "0", "+", "0", "1", "0", "0">>)

NewYearsEve == Str(<<"2", "0", "2", "3", "-", "1", "2", "-", "3", "1", "T", "2", "3", ":", "5", "9", ":", "5", "9", ".", "5", "0", "0", "-", "0", "5", "0", "0">>)

Breakfast == Str(<<"2", "0", "2", "4", "-", "0", "1", "-", "0", "1", "T", "0", "6", ":", "0", "0", ":", "0", "0", ".", "0", "0", "0", "Z">>)

NextDay == Str(<<"2", "0", "2", "4", "-", "0", "1", "-", "0", "2", "T", "1", "0", ":", "0", "0", ":", "0", "0", ".", "0", "0", "0", "+", "0", "1", "0", "0">>)

SourceItems ==
    { ActivityItem(Str(<<"T", "r", "a", "i", "l", " ", "R", "u", "n">>), Str(<<"r", "u", "n", "n", "i", "n", "g">>), During(EarlyMorning, Breakfast)),
      ActivityItem(Str(<<"t", "r", "a", "i", "l", "_", "r", "u", "n">>), Str(<<"R", "u", "n", "n", "i", "n", "g">>), During(EarlyMorningParis, Breakfast)),
      ActivityItem(Str(<<"T", "R", "A", "I", "L", "-", "-", "R", "U", "N">>), Str(<<"r", "u", "n", "n", "i", "n", "g">>), During(NewYearsEve, NextDay)),
      ActivityItem(Str(<<"Y", "o", "g", "a">>), Undef, Undef),
      ActivityItem(Str(<<"S", "l", "e", "e", "p">>), Str(<<"r", "e", "s", "t">>), During(NewYearsEve, Breakfast)),
      ActivityItem(Str(<<"N", "a", "p">>), Str(<<"S", "L", "E", "E", "P">>), During(EarlyMorning, Breakfast)),
      ActivityItem(Undef, Str(<<"r", "u", "n", "n", "i", "n", "g">>), During(EarlyMorning, NextDay)) }

KeyStatisticItem ==
    Obj([type |-> Tag.KEY_STATISTIC, content |-> Obj([trend_key |-> Str(<<"H", "R", "V">>)])])

OverviewWith(activities) ==
    Obj([pillars |-> Arr(<<
        Obj([type |-> Tag.OVERVIEW, sections |-> Arr(<<
            Obj([items |-> Arr(<<
                KeyStatisticItem,
                Obj([type |-> Tag.ITEMS_CARD, content |-> Obj([items |-> Arr(activities)])]) >>)]) >>)]) >>)])

StrainWith(activities) ==
    Obj([sections |-> Arr(<< Obj([items |-> Arr(<<KeyStatisticItem>> \o activities)]) >>)])

ItemLists(n) == UNION { [1..k -> SourceItems] : k \in 0..n }

InitWorkouts ==
    /\ ClientInit
    /\ arg \in { [overview |-> OverviewWith(a), strain |-> StrainWith(b)] :
                   <<a, b>> \in { p \in ItemLists(MaxActivities) \X ItemLists(MaxActivities) :
                                    Len(p[1]) + Len(p[2]) <= MaxActivities } }
    /\ ret = NotRun

CallBuildWorkouts ==
    /\ ret = NotRun
    /\ ret' = [fn |-> "buildWorkouts", out |-> buildWorkouts(arg.overview, arg.strain)]
    /\ UNCHANGED <<now, tokenData, loginInFlight, authSent, pending, settled, calls, arg>>

SpecWorkouts == InitWorkouts /\ [][CallBuildWorkouts]_vars

\* ------------------------------------------------ claims C14, C15, C16
\* the ACTIVITY entries the two payloads of arg hold, overview first
Found ==
    arg.overview.v.pillars.v[1].v.sections.v[1].v.items.v[2].v.content.v.items.v
    \o Tail(arg.strain.v.sections.v[1].v.items.v)

\* the value is a string equal to word when letter case is ignored
EqualsIgnoringCase(value, word) ==
    /\ value.t = "string"
    /\ Len(value.v) = Len(word)
    /\ \A i \in 1..Len(word) : value.v[i] = word[i] \/ UpperOf(value.v[i]) = word[i]

\* the entry's title or type equals SLEEP ignoring case
IsSleep(item) ==
    \/ EqualsIgnoringCase(item.v.content.v.title, <<"S", "L", "E", "E", "P">>)
    \/ EqualsIgnoringCase(item.v.content.v.type, <<"S", "L", "E", "E", "P">>)

\* the entry has no title: it is missing, not a string, or empty
Untitled(item) ==
    item.v.content.v.title.t # "string" \/ item.v.content.v.title.v = <<>>

\* the (normalized name, start, end) of a source entry
TripleOf(item) ==
    <<normalizeWorkoutName(StringOrNull(item.v.content.v.title)),
      IsoOrNull(parseDate(StringOrNull(Path(item, <<"content", "during", "lower_endpoint">>)))),
      IsoOrNull(parseDate(StringOrNull(Path(item, <<"content", "during", "upper_endpoint">>))))>>

\* the (name, start, end) of the i-th entry of the returned list
ListTriple(i) == <<ret.out.v[i].v.name, ret.out.v[i].v.start, ret.out.v[i].v.end>>

ListTriples == {ListTriple(i) : i \in 1..Len(ret.out.v)}

Returned == ret.fn = "buildWorkouts" /\ ret.out.t = "array"

\* C14 as stated: the list has an entry for every ACTIVITY entry of the two
\* sources except the SLEEP ones, and none for a SLEEP one.
C14_Original ==
    ret.fn = "buildWorkouts" =>
        /\ ret.out.t = "array"
        /\ ListTriples = {TripleOf(Found[k]) : k \in {j \in 1..Len(Found) : ~IsSleep(Found[j])}}

\* C14: the list built by buildWorkouts has an entry for every ACTIVITY entry
\* of the overview's ITEMS_CARD items and of the strain payload's section
\* items, except those whose title or type equals SLEEP ignoring case and
\* those that have no title (missing, not a string, or empty): none of the
\* excepted entries gives a list entry, and no other entry is left out.
C14_Listed ==
    ret.fn = "buildWorkouts" =>
        /\ ret.out.t = "array"
        /\ ListTriples = {TripleOf(Found[k]) :
                            k \in {j \in 1..Len(Found) : ~IsSleep(Found[j]) /\ ~Untitled(Found[j])}}

\* a SLEEP entry, an untitled entry and a titled one were found; the list
\* holds the titled one alone
C14_Witness ==
    /\ Returned
    /\ \E i, j, k \in 1..Len(Found) :
         /\ IsSleep(Found[i])
         /\ Untitled(Found[j]) /\ ~IsSleep(Found[j])
         /\ ~IsSleep(Found[k]) /\ ~Untitled(Found[k])
    /\ Len(ret.out.v) = 1

\* the source entries that are listed, in source order
Listable == SelectSeq(Found, LAMBDA item : ~IsSleep(item) /\ ~Untitled(item))

\* C15: no two entries of the list have the same (normalized name, start,
\* end); among the activities that are listed, several that share a triple
\* give one entry, that of the first in source order (overview before
\* strain), and two that differ in any of the three fields both appear.
C15_Deduplicated ==
    Returned =>
        LET listed == Listable
            triple == [k \in 1..Len(listed) |-> TripleOf(listed[k])]
        IN  /\ \A i, j \in 1..Len(ret.out.v) : i # j => ListTriple(i) # ListTriple(j)
            /\ \A k \in 1..Len(listed) :
                 \E i \in 1..Len(ret.out.v) :
                    /\ ListTriple(i) = triple[k]
                    /\ LET first == CHOOSE f \in 1..k :
                                       /\ triple[f] = triple[k]
                                       /\ \A g \in 1..(f - 1) : triple[g] # triple[k]
                       IN  ret.out.v[i] = Obj(Workout(ActivityEntry(listed[first])))

\* an overview entry and a strain entry share a triple although their raw
\* titles and start strings differ, a third entry has the same name and
\* another start: the list has two entries
C15_Witness ==
    /\ Returned
    /\ Len(Listable) = 3
    /\ Listable[1] # Listable[3]
    /\ TripleOf(Listable[1]) = TripleOf(Listable[3])
    /\ TripleOf(Listable[2])[1] = TripleOf(Listable[1])[1]
    /\ TripleOf(Listable[2])[2] # TripleOf(Listable[1])[2]
    /\ Len(arg.strain.v.sections.v[1].v.items.v) = 2
    /\ Len(ret.out.v) = 2

\* the instant a list entry starts at
StartInstant(i) == DateParse(ret.out.v[i].v.start.v).ms

\* C16: the list is in ascending order of start: of any two entries the
\* earlier one in the list starts no later than the other, and every entry
\* without a start precedes every entry with one.
C16_Sorted ==
    Returned =>
        \A i, j \in 1..Len(ret.out.v) :
            i < j => \/ ret.out.v[i].v.start = Null
                     \/ /\ ret.out.v[j].v.start # Null
                        /\ StartInstant(i) <= StartInstant(j)

\* three entries found out of order (the latest first, the one without a
\* start last) and returned in order
C16_Witness ==
    /\ Returned
    /\ Len(Listable) = 3
    /\ Len(ret.out.v) = 3
    /\ TripleOf(Listable[3])[2] = Null
    /\ TripleOf(Listable[1])[2] # Null /\ TripleOf(Listable[2])[2] # Null
    /\ DateParse(TripleOf(Listable[1])[2].v).ms > DateParse(TripleOf(Listable[2])[2].v).ms
    /\ ret.out.v[1].v.start = Null

\* -------------------------------------------------------- bed and wake
\* `${value ?? ""}` for any value: a string as it is, a whole number in
\* decimal, an object as "[object Object]"
TemplateAny(value) ==
    IF IsNullish(value) THEN <<>>
    ELSE IF value.t = "string" THEN value.v
    ELSE IF value.t = "number" /\ value.e = 0 /\ value.m >= 0 THEN Decimal(value.m)
    ELSE <<"[", "o", "b", "j", "e", "c", "t", " ", "O", "b", "j", "e", "c", "t", "]">>

\* the activity's title or type is SLEEP in any letter case
IsSleepActivity(activity) ==
    \/ ToUpperCase(TemplateAny(Path(activity, <<"content", "title">>))) = Tag.SLEEP
    \/ ToUpperCase(TemplateAny(Path(activity, <<"content", "type">>))) = Tag.SLEEP

\* the first element of seq that is a Throw or satisfies Hit, undefined if none
FirstHit(seq, Hit(_)) == Find(seq, LAMBDA e : e.t = "throw" \/ Hit(e))

getSleepActivityFromOverview(overview) ==
    LET overviewPillar == getOverviewPillar(overview)
        hit == FirstHit(CardItems(SectionItems(Prop(overviewPillar, "sections").v)),
                        LAMBDA activity : Opt(activity, "type") = Tag.ACTIVITY
                                          /\ IsSleepActivity(activity))
    IN  IF Falsy(overviewPillar) \/ ~IsArray(Prop(overviewPillar, "sections")) THEN Null
        ELSE IF hit.t = "throw" THEN Throw
        ELSE IF hit.t = "undefined" THEN Null
        ELSE Prop(hit, "content")

\* a `??` that always takes the overview's value
FallbackAlways(fromLastNight, fromOverview) == fromOverview

\* fromLastNight ?? fromOverview
Fallback(fromLastNight, fromOverview) ==
    IF IsNullish(fromLastNight) THEN fromOverview ELSE fromLastNight

getBedWakeTimes(lastNight, overview) ==
    Only({ Only({
        IF ~Falsy(bedTime) /\ ~Falsy(wakeTime)
        THEN Obj([bedTime |-> bedTime, wakeTime |-> wakeTime])
        ELSE Only({ Only({
            IF sleepActivity.t = "throw" \/ bed.t = "throw" \/ wake.t = "throw" THEN Throw
            ELSE Obj([bedTime |-> bed, wakeTime |-> wake]) :
            bed  \in {Fallback(bedTime,
                                toLocalIso(Path(sleepActivity, <<"during", "lower_endpoint">>)))},
            wake \in {Fallback(wakeTime,
                                toLocalIso(Path(sleepActivity, <<"during", "upper_endpoint">>)))} }) :
            sleepActivity \in {getSleepActivityFromOverview(overview)} }) :
        bedTime  \in {toLocalIso(StringOrNull(Opt(headerParams, "start_time")))},
        wakeTime \in {toLocalIso(StringOrNull(Opt(headerParams, "end_time")))} }) :
        headerParams \in {Path(lastNight, <<"header_section", "destination", "parameters">>)} })

\* The payloads handed to getBedWakeTimes: a last-night header whose
\* start_time and end_time are each missing, a number, unparseable or a
\* timestamp, and an overview that holds a workout and, or not, a sleep
\* activity whose endpoints are each missing, unparseable or a timestamp.
Unparseable == Str(<<"s", "o", "o", "n">>)

HeaderTimes == {Undef, Num(7, 0), Unparseable, EarlyMorning, Breakfast}

OverviewTimes == {Undef, Unparseable, NewYearsEve, NextDay}

LastNightWith(startTime, endTime) ==
    Obj([header_section |-> Obj([destination |-> Obj([parameters |->
            Obj([start_time |-> startTime, end_time |-> endTime])])])])

WorkoutItem == ActivityItem(Str(<<"R", "u", "n", "n", "i", "n", "g">>), Str(<<"r", "u", "n", "n", "i", "n", "g">>), During(EarlyMorning, Breakfast))

SleepItem(lower, upper) == ActivityItem(Str(<<"S", "l", "e", "e", "p">>), Str(<<"s", "l", "e", "e", "p">>), During(lower, upper))

InitBedWake ==
    /\ ClientInit
    /\ arg \in [lastNight : {LastNightWith(s, e) : s \in HeaderTimes, e \in HeaderTimes},
                overview : {OverviewWith(<<WorkoutItem>>)} \cup
                           {OverviewWith(<<WorkoutItem, SleepItem(l, u)>>) :
                                l \in OverviewTimes, u \in OverviewTimes}]
    /\ ret = NotRun

CallGetBedWakeTimes ==
    /\ ret = NotRun
    /\ ret' = [fn |-> "getBedWakeTimes", out |-> getBedWakeTimes(arg.lastNight, arg.overview)]
    /\ UNCHANGED <<now, tokenData, loginInFlight, authSent, pending, settled, calls, arg>>

SpecBedWake == InitBedWake /\ [][CallGetBedWakeTimes]_vars

\* -------------------------------------------------------- claims C17
\* the value is a timestamp string that parses
Parses(value) == value.t = "string" /\ parseDate(value).t = "date"

HeaderTime(side) == arg.lastNight.v.header_section.v.destination.v.parameters.v[side]

\* the time window of the overview's sleep activity, undefined if it has none
SleepWindow ==
    LET activities == arg.overview.v.pillars.v[1].v.sections.v[1].v.items.v[2].v.content.v.items.v
    IN  IF Len(activities) = 2 THEN activities[2].v.content.v.during ELSE Undef

\* what a side resolves to: the header's value when present and parsing,
\* otherwise the endpoint of the overview's sleep activity (null when that
\* is missing or does not parse)
Resolved(side, endpoint) ==
    IF Parses(HeaderTime(side)) THEN toLocalIso(HeaderTime(side))
    ELSE IF Parses(Opt(SleepWindow, endpoint)) THEN toLocalIso(Opt(SleepWindow, endpoint))
    ELSE Null

\* C17: getBedWakeTimes resolves each side on its own: bedTime is the
\* last-night header's start_time when present and parsing, otherwise the
\* lower endpoint of the overview's sleep activity; wakeTime is the header's
\* end_time when present and parsing, otherwise the upper endpoint.  A side
\* the header gives is never replaced, a side it lacks falls back even when
\* the other side is there.
C17_EachSide ==
    ret.fn = "getBedWakeTimes" =>
        /\ ret.out.t = "object"
        /\ ret.out.v.bedTime = Resolved("start_time", "lower_endpoint")
        /\ ret.out.v.wakeTime = Resolved("end_time", "upper_endpoint")

\* the header gives the start only and the overview's sleep activity both
\* endpoints: bedTime is the header's, wakeTime the overview's
C17_Witness ==
    /\ ret.fn = "getBedWakeTimes"
    /\ HeaderTime("start_time") = EarlyMorning
    /\ HeaderTime("end_time") = Undef
    /\ SleepWindow = During(NewYearsEve, NextDay)
    /\ ret.out = Obj([bedTime |-> toLocalIso(EarlyMorning), wakeTime |-> toLocalIso(NextDay)])

\* ------------------------------------------------------------ healthspan
\* a conversion that leaves the number as it is
ToFixedNone(x) == x

\* Number(x.toFixed(1)): x to one decimal, a half going away from zero.  (A
\* decimal tie that is no binary fraction rounds by its binary value in the
\* program; the inputs below hold no such number.)
ToFixed1(x) ==
    LET abs == IF x.m < 0 THEN 0 - x.m ELSE x.m
        n   == (20 * abs + Pow10(x.e)) \div (2 * Pow10(x.e))
    IN  Num(IF x.m < 0 THEN 0 - n ELSE n, 1)

\* the length of the run of whitespace of s that starts at position i
RECURSIVE SpaceRun(_, _)
SpaceRun(s, i) ==
    IF i <= Len(s) /\ s[i] \in Whitespace THEN 1 + SpaceRun(s, i + 1) ELSE 0

\* value.match(/NEXT UPDATE IN\s+(.+)/i): what the group captures at the
\* leftmost match, undefined when there is no match
NextUpdateMatch(chars) ==
    LET phrase   == <<"N", "E", "X", "T", " ", "U", "P", "D", "A", "T", "E", " ", "I", "N">>
        after(p) == p + Len(phrase)
        rest(p)  == SubSeq(chars, after(p) + SpaceRun(chars, after(p)), Len(chars))
        ok(p)    == /\ ToUpperCase(SubSeq(chars, p, after(p) - 1)) = phrase
                    /\ SpaceRun(chars, after(p)) >= 1
                    /\ (rest(p) # <<>> \/ SpaceRun(chars, after(p)) >= 2)
        ps       == {p \in 1..(Len(chars) - Len(phrase)) : ok(p)}
        first    == CHOOSE p \in ps : \A q \in ps : p <= q
    IN  IF ps = {} THEN Undef
        ELSE IF rest(first) # <<>> THEN Str(rest(first))
        ELSE Str(<<chars[Len(chars)]>>)

parseNextUpdateIn(value) ==
    IF Falsy(value) THEN Null
    ELSE IF value.t # "string" THEN Throw
    ELSE IF NextUpdateMatch(value.v).t = "string"
    THEN Str(ToLowerCase(NextUpdateMatch(value.v).v))
    ELSE Str(ToLowerCase(value.v))

\* typeof structured === "number" ? Number(structured.toFixed(1)) : otherwise
NumberOr(structured, otherwise) ==
    IF structured.t \in {"number", "NaN"} THEN
        (IF structured.t = "NaN" THEN NaN ELSE ToFixed1(structured))
    ELSE otherwise

healthspanSummary(healthspan) ==
    LET amoeba      == Path(healthspan, <<"unlocked_content", "whoop_age_amoeba">>)
        styleValues == Opt(amoeba, "style_values")
        summary     ==
            [ whoopAge        |-> NumberOr(Opt(styleValues, "age"),
                                           parseDisplayNumber(Opt(amoeba, "age_value_display"))),
              yearsDifference |-> NumberOr(Opt(styleValues, "years_difference"), Null),
              paceOfAging     |-> NumberOr(Opt(styleValues, "pace_of_aging"),
                                           parseDisplayNumber(Opt(amoeba, "pace_of_aging_display"))),
              nextUpdateIn    |-> parseNextUpdateIn(
                                      StringOrNull(Opt(healthspan, "navigation_subtitle"))) ]
    IN  IF \E k \in DOMAIN summary : summary[k].t = "throw" THEN Throw ELSE Obj(summary)

\* The payloads handed to healthspanSummary: each structured number and each
\* display string there or not.  years_difference_display stands for a
\* display string of the years difference; healthspanSummary reads none.
HealthspanWith(age, years, pace, ageDisplay, yearsDisplay, paceDisplay, subtitle) ==
    Obj([ navigation_subtitle |-> subtitle,
          unlocked_content |-> Obj([ whoop_age_amoeba |-> Obj([
              style_values |-> Obj([age |-> age, years_difference |-> years,
                                    pace_of_aging |-> pace]),
              age_value_display |-> ageDisplay,
              years_difference_display |-> yearsDisplay,
              pace_of_aging_display |-> paceDisplay ]) ]) ])

Healthspans ==
    { HealthspanWith(age, years, pace, ageDisplay, yearsDisplay, paceDisplay, subtitle) :
        age \in {Undef, Num(3426, 2), Num(35, 0)},
        years \in {Undef, Num(0 - 175, 2), Num(204, 2)},
        pace \in {Undef, Num(96, 2)},
        ageDisplay \in {Undef, Str(<<"3", "4", ".", "2", " ", "y", "r", "s">>), Str(<<"-", "-">>)},
        yearsDisplay \in {Undef, Str(<<"-", "1", ".", "8", " ", "y", "r", "s">>)},
        paceDisplay \in {Undef, Str(<<"0", ".", "9", "x">>)},
        subtitle \in {Undef, Str(<<"N", "e", "x", "t", " ", "u", "p", "d", "a", "t", "e", " ", "i", "n", " ", "3", " ", "d", "a", "y", "s">>)} }

InitHealthspan ==
    /\ ClientInit
    /\ arg \in Healthspans
    /\ ret = NotRun

CallHealthspanSummary ==
    /\ ret = NotRun
    /\ ret' = [fn |-> "healthspanSummary", out |-> healthspanSummary(arg)]
    /\ UNCHANGED <<now, tokenData, loginInFlight, authSent, pending, settled, calls, arg>>

SpecHealthspan == InitHealthspan /\ [][CallHealthspanSummary]_vars

\* -------------------------------------------------------- claims C18
Amoeba == arg.v.unlocked_content.v.whoop_age_amoeba.v

\* r is x rounded to one decimal
RoundedToOneDecimal(r, x) ==
    /\ r.t = "number" /\ r.e <= 1
    /\ 2 * (10 * x.m - r.m * Pow10(1 - r.e) * Pow10(x.e)) <= Pow10(x.e)
    /\ 2 * (10 * x.m - r.m * Pow10(1 - r.e) * Pow10(x.e)) >= 0 - Pow10(x.e)

\* the result is the structured number rounded to one decimal, or, when
\* there is no structured number, the number parsed from the display string
\* (null when that is missing or unparseable)
FromStructuredOrDisplay(result, structured, display) ==
    IF structured.t = "number" THEN RoundedToOneDecimal(result, structured)
    ELSE result = parseDisplayNumber(display)

\* C18 as stated: each of whoopAge, yearsDifference and paceOfAging is the
\* structured number rounded to one decimal, or else the number parsed from
\* its display string.
C18_Original ==
    ret.fn = "healthspanSummary" =>
        /\ FromStructuredOrDisplay(ret.out.v.whoopAge,
                                   Amoeba.style_values.v.age, Amoeba.age_value_display)
        /\ FromStructuredOrDisplay(ret.out.v.yearsDifference,
                                   Amoeba.style_values.v.years_difference,
                                   Amoeba.years_difference_display)
        /\ FromStructuredOrDisplay(ret.out.v.paceOfAging,
                                   Amoeba.style_values.v.pace_of_aging,
                                   Amoeba.pace_of_aging_display)

\* C18: whoopAge and paceOfAging are the structured number of style_values
\* rounded to one decimal when it is a number, and otherwise the number
\* parsed from age_value_display and pace_of_aging_display, null only when
\* that string is missing or unparseable; yearsDifference is the structured
\* number rounded to one decimal when it is a number and null otherwise,
\* whatever display strings the payload holds.
C18_Healthspan ==
    ret.fn = "healthspanSummary" =>
        /\ FromStructuredOrDisplay(ret.out.v.whoopAge,
                                   Amoeba.style_values.v.age, Amoeba.age_value_display)
        /\ FromStructuredOrDisplay(ret.out.v.yearsDifference,
                                   Amoeba.style_values.v.years_difference, Undef)
        /\ FromStructuredOrDisplay(ret.out.v.paceOfAging,
                                   Amoeba.style_values.v.pace_of_aging,
                                   Amoeba.pace_of_aging_display)

\* a structured pace of 0.96 gives 1, a missing structured age gives the
\* 34.2 of its display string, a missing years difference gives null
C18_Witness ==
    /\ ret.fn = "healthspanSummary"
    /\ Amoeba.style_values.v = [age |-> Undef, years_difference |-> Undef,
                                pace_of_aging |-> Num(96, 2)]
    /\ Amoeba.years_difference_display # Undef
    /\ ret.out.v.whoopAge = Num(342, 1)
    /\ ret.out.v.yearsDifference = Null
    /\ ret.out.v.paceOfAging = Num(1, 0)

\* ------------------------------------------------------------ extractors
\* trimmed.match(/^(\d{1,2}):(\d{2})$/): the position of the colon, 0 when
\* the string has another form
ClockColon(chars) ==
    IF /\ Len(chars) \in {4, 5}
       /\ chars[Len(chars) - 2] = ":"
       /\ AllDigits(chars, 1, Len(chars) - 3)
       /\ AllDigits(chars, Len(chars) - 1, Len(chars))
    THEN Len(chars) - 2 ELSE 0

formatClock(value) ==
    IF Falsy(value) THEN Null
    ELSE IF value.t # "string" THEN Throw
    ELSE LET trimmed == Trim(value.v)
             colon   == ClockColon(trimmed)
         IN  IF colon = 0 THEN Str(trimmed)
             ELSE Str(Decimal(NumAt(trimmed, 1, colon - 1)) \o <<"h", " ">>
                      \o Decimal(NumAt(trimmed, colon + 1, Len(trimmed))) \o <<"m">>)

\* stats[trendKey] = stat on a table kept in insertion order
Assign(table, key, stat) ==
    IF \E i \in 1..Len(table) : table[i].key = key
    THEN [i \in 1..Len(table) |->
            IF table[i].key = key THEN [key |-> key, stat |-> stat] ELSE table[i]]
    ELSE Append(table, [key |-> key, stat |-> stat])

\* the table of key stats (t = "table"), or Throw
getKeyStats(overview) ==
    LET overviewPillar == getOverviewPillar(overview)
        visited == SectionItems(Prop(overviewPillar, "sections").v)
        stat(item) ==
            Obj([ current   |-> StringOrNull(Path(item, <<"content", "current_value_display">>)),
                  thirtyDay |-> StringOrNull(Path(item, <<"content", "thirty_day_value_display">>)) ])
        f[i \in 0..Len(visited)] ==
            IF i = 0 THEN <<>>
            ELSE IF visited[i].t = "throw" THEN f[i - 1]
            ELSE IF Opt(visited[i], "type") # Tag.KEY_STATISTIC THEN f[i - 1]
            ELSE IF ~IsString(Path(visited[i], <<"content", "trend_key">>)) THEN f[i - 1]
            ELSE Assign(f[i - 1], Path(visited[i], <<"content", "trend_key">>).v, stat(visited[i]))
    IN  IF Falsy(overviewPillar) \/ ~IsArray(Prop(overviewPillar, "sections"))
        THEN [t |-> "table", v |-> <<>>]
        ELSE IF Threw(visited) THEN Throw
        ELSE [t |-> "table", v |-> f[Len(visited)]]

getSleepScore(sleep) ==
    LET hit == FirstHit(SectionItems(Opt(sleep, "sections").v),
                        LAMBDA item : Opt(item, "type") = Tag.SCORE_GAUGE)
    IN  IF ~IsArray(Opt(sleep, "sections")) THEN Null
        ELSE IF hit.t = "throw" THEN Throw
        ELSE IF hit.t = "undefined" THEN Null
        ELSE parseDisplayInt(Path(hit, <<"content", "score_display">>))

\* the metrics of the CONTRIBUTORS_TILE items among the items visited
TileMetrics(visited) ==
    FlatMap(visited, LAMBDA item :
        IF item.t = "throw" THEN <<Throw>>
        ELSE IF Opt(item, "type") # Tag.CONTRIBUTORS_TILE
                \/ ~IsArray(Path(item, <<"content", "metrics">>)) THEN <<>>
        ELSE Path(item, <<"content", "metrics">>).v)

\* the status of the first metric with the given id, parsed to an integer
ContributorStatus(sleep, id) ==
    LET hit == FirstHit(TileMetrics(SectionItems(Opt(sleep, "sections").v)),
                        LAMBDA metric : Opt(metric, "id") = id)
    IN  IF ~IsArray(Opt(sleep, "sections")) THEN Null
        ELSE IF hit.t = "throw" THEN Throw
        ELSE IF hit.t = "undefined" THEN Null
        ELSE parseDisplayInt(Opt(hit, "status"))

getSleepEfficiency(sleep) == ContributorStatus(sleep, Tag.CONTRIBUTORS_TILE_IN_SLEEP_EFFICIENCY)

getSleepHoursVsNeeded(sleep) == ContributorStatus(sleep, Tag.CONTRIBUTORS_TILE_HOURS_V_NEEDED)

\* stages of one card: each stage is the display of the last zone with its
\* id; Throw when formatClock throws for any zone
StagesOf(card) ==
    LET cardContent == IF IsArray(Path(card, <<"content", "card_content">>))
                       THEN Path(card, <<"content", "card_content">>).v ELSE <<>>
        barCard     == Find(cardContent, LAMBDA entry : Opt(entry, "type") = Tag.BAR_GRAPH_CARD)
        zones       == IF IsArray(Path(barCard, <<"content", "heart_rate_zones">>))
                       THEN Path(barCard, <<"content", "heart_rate_zones">>).v ELSE <<>>
        value       == [i \in 1..Len(zones) |->
                           formatClock(Opt(zones[i], "bar_graph_tile_time_display"))]
        stage(id)   == LET is == {i \in 1..Len(zones) : Opt(zones[i], "id") = id}
                       IN  IF is = {} THEN Null
                           ELSE value[CHOOSE i \in is : \A j \in is : j <= i]
    IN  IF Threw(value) THEN Throw
        ELSE Obj([rem |-> stage(Tag.REM_SLEEP), deep |-> stage(Tag.SWS_SLEEP), light |-> stage(Tag.LIGHT_SLEEP)])

\* a loop without the `return stages` of the first card: the last card with
\* the id decides
getSleepStagesLastCard(lastNight) ==
    LET items == SectionItems(Opt(lastNight, "sections").v)
        hits  == {i \in 1..Len(items) :
                     /\ Opt(items[i], "type") = Tag.DETAILS_GRAPHING_CARD
                     /\ Path(items[i], <<"content", "id">>) = Tag.hours_of_sleep}
    IN  IF ~IsArray(Opt(lastNight, "sections")) \/ hits = {}
        THEN Obj([rem |-> Null, deep |-> Null, light |-> Null])
        ELSE StagesOf(items[CHOOSE i \in hits : \A j \in hits : j <= i])

getSleepStages(lastNight) ==
    LET hit == FirstHit(SectionItems(Opt(lastNight, "sections").v),
                        LAMBDA item : /\ Opt(item, "type") = Tag.DETAILS_GRAPHING_CARD
                                      /\ Path(item, <<"content", "id">>) = Tag.hours_of_sleep)
        none == Obj([rem |-> Null, deep |-> Null, light |-> Null])
    IN  IF ~IsArray(Opt(lastNight, "sections")) THEN none
        ELSE IF hit.t = "throw" THEN Throw
        ELSE IF hit.t = "undefined" THEN none
        ELSE StagesOf(hit)

\* the end of the day read off the sleep activity instead of the cycle
getDayEndTimeOfSleep(overview) ==
    toLocalIso(Path(getSleepActivityFromOverview(overview), <<"during", "upper_endpoint">>))

getDayEndTime(overview) ==
    LET raw == Path(overview, <<"metadata", "cycle_metadata", "during", "upper_endpoint">>)
    IN  IF ~IsString(raw) THEN Null ELSE toLocalIso(raw)

\* The payloads handed to the extractors: trees in which a branch is
\* missing, null or of a wrong type.  One tree carries the branches of all
\* five payloads and is handed to every extractor (as both payloads to the
\* extractors that take two).  A leaf is what stands where a display string
\* or a timestamp is expected.
Leaves == {Undef, Null, Num(85, 0), Str(<<"8", "5", "%">>), EarlyMorning}

ItemsWith(leaf) ==
    { Null,
      Obj([type |-> Tag.SCORE_GAUGE, content |-> Obj([score_display |-> leaf])]),
      Obj([type |-> Tag.CONTRIBUTORS_TILE, content |-> Obj([metrics |-> Arr(<<
          Null,
          Obj([id |-> Tag.CONTRIBUTORS_TILE_IN_SLEEP_EFFICIENCY, status |-> leaf]),
          Obj([id |-> Tag.CONTRIBUTORS_TILE_HOURS_V_NEEDED, status |-> leaf]) >>)])]),
      Obj([type |-> Tag.CONTRIBUTORS_TILE, content |-> Obj([metrics |-> leaf])]),
      Obj([type |-> Tag.DETAILS_GRAPHING_CARD, content |-> Obj([
          id |-> Tag.hours_of_sleep,
          card_content |-> Arr(<<
              Null,
              Obj([type |-> Tag.BAR_GRAPH_CARD, content |-> Obj([heart_rate_zones |-> Arr(<<
                  Null,
                  Obj([id |-> Tag.REM_SLEEP, bar_graph_tile_time_display |-> leaf]) >>)])]) >>)])]),
      Obj([type |-> Tag.KEY_STATISTIC,
           content |-> Obj([trend_key |-> Str(<<"H", "R", "V">>), current_value_display |-> leaf])]),
      Obj([type |-> Tag.ITEMS_CARD, content |-> Obj([items |-> Arr(<<
          Null, ActivityItem(Str(<<"S", "l", "e", "e", "p">>), leaf, During(leaf, leaf)) >>)])]),
      ActivityItem(Str(<<"R", "u", "n", "n", "i", "n", "g">>), leaf, During(leaf, leaf)) }

SectionsWith(item) ==
    { Undef, Null, Num(3, 0), Arr(<<>>), Arr(<<Null>>), Arr(<<Num(3, 0)>>),
      Arr(<<Obj([items |-> Null])>>),
      Arr(<<Obj([items |-> Arr(<<item>>)])>>),
      Arr(<<Obj([items |-> Arr(<<item>>)]), Null>>) }

PayloadWith(sections, leaf) ==
    Obj([ sections |-> sections,
          pillars |-> Arr(<<Null, Obj([type |-> Tag.OVERVIEW, sections |-> sections])>>),
          header_section |-> Obj([destination |-> Obj([parameters |->
              Obj([start_time |-> leaf, end_time |-> Undef])])]),
          metadata |-> Obj([cycle_metadata |-> Obj([during |->
              Obj([upper_endpoint |-> leaf])])]),
          unlocked_content |-> Obj([whoop_age_amoeba |-> Obj([
              style_values |-> leaf, age_value_display |-> leaf,
              pace_of_aging_display |-> leaf])]),
          navigation_subtitle |-> leaf ])

Payloads ==
    {Undef, Null, Num(3, 0)} \cup
    UNION { UNION { { PayloadWith(sections, leaf) : sections \in SectionsWith(item) } :
                      item \in ItemsWith(leaf) } : leaf \in Leaves }

InitExtract ==
    /\ ClientInit
    /\ arg \in Payloads
    /\ ret = NotRun

\* the extractor named fn returns out
Extracts(fn, out) ==
    /\ ret = NotRun
    /\ ret' = [fn |-> fn, out |-> out]
    /\ UNCHANGED <<now, tokenData, loginInFlight, authSent, pending, settled, calls, arg>>

CallGetKeyStats == Extracts("getKeyStats", getKeyStats(arg))

CallGetSleepScore == Extracts("getSleepScore", getSleepScore(arg))

CallGetSleepEfficiency == Extracts("getSleepEfficiency", getSleepEfficiency(arg))

CallGetSleepHoursVsNeeded == Extracts("getSleepHoursVsNeeded", getSleepHoursVsNeeded(arg))

CallGetSleepStages == Extracts("getSleepStages", getSleepStages(arg))

CallGetBedWakeTimesOn == Extracts("getBedWakeTimes", getBedWakeTimes(arg, arg))

CallGetDayEndTime == Extracts("getDayEndTime", getDayEndTime(arg))

CallBuildWorkoutsOn == Extracts("buildWorkouts", buildWorkouts(arg, arg))

CallHealthspanSummaryOn == Extracts("healthspanSummary", healthspanSummary(arg))

NextExtract ==
    \/ CallGetKeyStats
    \/ CallGetSleepScore
    \/ CallGetSleepEfficiency
    \/ CallGetSleepHoursVsNeeded
    \/ CallGetSleepStages
    \/ CallGetBedWakeTimesOn
    \/ CallGetDayEndTime
    \/ CallBuildWorkoutsOn
    \/ CallHealthspanSummaryOn

SpecExtract == InitExtract /\ [][NextExtract]_vars

\* -------------------------------------------------------- claims C12
\* C12: for every payload in which a branch is missing, null or of a wrong
\* type (a non-array for an array, a null element of a sections or items
\* array, a number for a display string or a timestamp) each of the nine
\* extractors returns a result and never throws.
C12_NeverThrows == ret.out.t # "throw"

\* ------------------------------------------------------- daily statistics
\* keyStats.<key>?.<field>
StatField(keyStats, key, field) == Opt(StatAt(keyStats.v, key), field)

\* buildDailyStats after its five fetches are fulfilled with the payloads
\* p (one per client method): the DailyStatsOutput, or Throw when a
\* statement of the body throws
buildDailyStats(date, p) ==
    Only({
        IF \E k \in DOMAIN extracted : extracted[k].t = "throw" THEN Throw
        ELSE Only({ Only({
            IF \E k \in DOMAIN derived : derived[k].t = "throw" THEN Throw
            ELSE Obj([
                date  |-> date,
                day   |-> Obj([start |-> extracted.bedWake.v.wakeTime,
                               end |-> extracted.dayEnd]),
                sleep |-> Obj([
                    score         |-> derived.sleepScore,
                    hours         |-> derived.sleepHours,
                    hoursVsNeeded |-> derived.sleepHoursVsNeeded,
                    hoursNeeded   |-> derived.sleepNeeded,
                    hours30dAvg   |-> derived.sleepHours30,
                    efficiency    |-> derived.sleepEfficiency,
                    rhr           |-> Obj([value |-> derived.rhrValue, avg30d |-> derived.rhr30]),
                    hrv           |-> Obj([value |-> derived.hrvValue, avg30d |-> derived.hrv30]),
                    bedTime       |-> extracted.bedWake.v.bedTime,
                    wakeTime      |-> extracted.bedWake.v.wakeTime,
                    stages        |-> extracted.stages ]),
                steps      |-> Obj([value |-> derived.stepsValue, avg30d |-> derived.steps30]),
                weight     |-> Obj([value |-> derived.weightValue, avg30d |-> derived.weight30]),
                workouts   |-> extracted.workouts,
                healthspan |-> Obj([
                    whoopAge        |-> extracted.health.v.whoopAge,
                    yearsDifference |-> extracted.health.v.yearsDifference,
                    paceOfAging     |-> extracted.health.v.paceOfAging,
                    nextUpdateIn    |-> extracted.health.v.nextUpdateIn ]) ]) :
            derived \in {[
                sleepHours   |-> formatClock(StatField(keyStats, <<"S", "L", "E", "E", "P", "_", "H", "O", "U", "R", "S">>, "current")),
                sleepNeeded  |-> formatClock(StatField(keyStats, <<"S", "L", "E", "E", "P", "_", "N", "E", "E", "D">>, "current")),
                sleepHours30 |-> formatClock(StatField(keyStats, <<"S", "L", "E", "E", "P", "_", "H", "O", "U", "R", "S">>, "thirtyDay")),
                rhrValue     |-> parseDisplayInt(StatField(keyStats, <<"R", "H", "R">>, "current")),
                rhr30        |-> parseDisplayInt(StatField(keyStats, <<"R", "H", "R">>, "thirtyDay")),
                hrvValue     |-> parseDisplayInt(StatField(keyStats, <<"H", "R", "V">>, "current")),
                hrv30        |-> parseDisplayInt(StatField(keyStats, <<"H", "R", "V">>, "thirtyDay")),
                stepsValue   |-> parseDisplayInt(StatField(keyStats, <<"S", "T", "E", "P", "S">>, "current")),
                steps30      |-> parseDisplayInt(StatField(keyStats, <<"S", "T", "E", "P", "S">>, "thirtyDay")),
                weightValue  |-> parseDisplayNumber(Opt(weightStat, "current")),
                weight30     |-> parseDisplayNumber(Opt(weightStat, "thirtyDay")),
                sleepScore   |-> getSleepScore(p["getSleep"]),
                sleepEfficiency    |-> getSleepEfficiency(p["getSleep"]),
                sleepHoursVsNeeded |-> getSleepHoursVsNeeded(p["getSleep"]) ]} }) :
            keyStats   \in {extracted.keyStats},
            weightStat \in {getWeightStat(extracted.keyStats.v)} }) :
        extracted \in {[
            keyStats |-> getKeyStats(p["getHome"]),
            stages   |-> getSleepStages(p["getSleepLastNight"]),
            bedWake  |-> getBedWakeTimes(p["getSleepLastNight"], p["getHome"]),
            dayEnd   |-> getDayEndTime(p["getHome"]),
            workouts |-> buildWorkouts(p["getHome"], p["getStrain"]),
            health   |-> healthspanSummary(p["getHealthspan"]) ]} })

\* the client methods buildDailyStats awaits together
Fetches == {"getHome", "getSleep", "getStrain", "getHealthspan", "getSleepLastNight"}

\* the error the fetch made by method rejects with
FetchError(method) == [t |-> "throw", name |-> "Error", from |-> method]

KeyStatistic(trendKey, current, thirtyDay) ==
    Obj([type |-> Tag.KEY_STATISTIC,
         content |-> Obj([trend_key |-> trendKey, current_value_display |-> current,
                          thirty_day_value_display |-> thirtyDay])])

\* a payload with every branch in its place
WellFormedSections ==
    Arr(<< Obj([items |-> Arr(<<
        Obj([type |-> Tag.SCORE_GAUGE, content |-> Obj([score_display |-> Str(<<"8", "5", "%">>)])]),
        Obj([type |-> Tag.CONTRIBUTORS_TILE, content |-> Obj([metrics |-> Arr(<<
            Obj([id |-> Tag.CONTRIBUTORS_TILE_IN_SLEEP_EFFICIENCY, status |-> Str(<<"9", "2", "%">>)]),
            Obj([id |-> Tag.CONTRIBUTORS_TILE_HOURS_V_NEEDED, status |-> Str(<<"8", "8", "%">>)]) >>)])]),
        Obj([type |-> Tag.DETAILS_GRAPHING_CARD, content |-> Obj([
            id |-> Tag.hours_of_sleep,
            card_content |-> Arr(<<
                Obj([type |-> Tag.BAR_GRAPH_CARD, content |-> Obj([heart_rate_zones |-> Arr(<<
                    Obj([id |-> Tag.REM_SLEEP, bar_graph_tile_time_display |-> Str(<<"1", ":", "4", "5">>)]),
                    Obj([id |-> Tag.SWS_SLEEP, bar_graph_tile_time_display |-> Str(<<"1", ":", "0", "5">>)]),
                    Obj([id |-> Tag.LIGHT_SLEEP, bar_graph_tile_time_display |-> Str(<<"4", ":", "4", "0">>)])
                    >>)])]) >>)])]),
        KeyStatistic(Str(<<"S", "L", "E", "E", "P", "_", "H", "O", "U", "R", "S">>), Str(<<"7", ":", "3", "0">>), Str(<<"7", ":", "0", "5">>)),
        KeyStatistic(Str(<<"H", "R", "V">>), Str(<<"6", "4">>), Str(<<"6", "1">>)),
        KeyStatistic(Str(<<"W", "E", "I", "G", "H", "T">>), Str(<<"1", "7", "2", ".", "4", " ", "l", "b">>), Null),
        Obj([type |-> Tag.ITEMS_CARD, content |-> Obj([items |-> Arr(<<
            ActivityItem(Str(<<"S", "l", "e", "e", "p">>), Str(<<"S", "L", "E", "E", "P">>), During(EarlyMorning, Breakfast)) >>)])]),
        ActivityItem(Str(<<"T", "r", "a", "i", "l", " ", "R", "u", "n">>), Str(<<"r", "u", "n", "n", "i", "n", "g">>), During(Breakfast, NextDay)) >>)]) >>)

WellFormed ==
    Obj([ sections |-> WellFormedSections,
          pillars |-> Arr(<<Obj([type |-> Tag.OVERVIEW, sections |-> WellFormedSections])>>),
          header_section |-> Obj([destination |-> Obj([parameters |->
              Obj([start_time |-> EarlyMorning, end_time |-> Breakfast])])]),
          metadata |-> Obj([cycle_metadata |-> Obj([during |->
              Obj([upper_endpoint |-> NextDay])])]),
          unlocked_content |-> Obj([whoop_age_amoeba |-> Obj([
              age_value_display |-> Str(<<"3", "2", ".", "5">>), pace_of_aging_display |-> Str(<<"0", ".", "8", "x">>)])]),
          navigation_subtitle |-> Str(<<"N", "E", "X", "T", " ", "U", "P", "D", "A", "T", "E", " ", "I", "N", " ", "3", " ", "d", "a", "y", "s">>) ])

\* What one fetch settles with: its error, a well-formed payload, a payload
\* that holds none of the branches, a payload whose sections array holds
\* null, or a payload with a number where each display string is expected.
FetchOutcomes(method) ==
    { FetchError(method), WellFormed, Obj([sections |-> Undef]),
      PayloadWith(Arr(<<Null>>), Undef), PayloadWith(Arr(<<>>), Num(85, 0)) }

DateArgument == Str(<<"2", "0", "2", "4", "-", "0", "1", "-", "0", "1">>)

InitDaily ==
    /\ ClientInit
    /\ arg \in { f \in [Fetches -> UNION { FetchOutcomes(e) : e \in Fetches }] :
                   \A e \in Fetches : f[e] \in FetchOutcomes(e) }
    /\ ret = NotRun

\* Promise.all rejects with the error of the fetch that is the first to
\* fail, and the await rethrows it.
DailyRejects(method) ==
    /\ ret = NotRun
    /\ arg[method].t = "throw"
    /\ ret' = [fn |-> "buildDailyStats", out |-> arg[method]]
    /\ UNCHANGED <<now, tokenData, loginInFlight, authSent, pending, settled, calls, arg>>

\* Promise.all is fulfilled with the five payloads and the body runs.
DailyAssembles ==
    /\ ret = NotRun
    /\ \A e \in Fetches : arg[e].t # "throw"
    /\ ret' = [fn |-> "buildDailyStats", out |-> buildDailyStats(DateArgument, arg)]
    /\ UNCHANGED <<now, tokenData, loginInFlight, authSent, pending, settled, calls, arg>>

NextDaily ==
    \/ \E method \in Fetches : DailyRejects(method)
    \/ DailyAssembles

SpecDaily == InitDaily /\ [][NextDaily]_vars

\* -------------------------------------------------------- claims C11
FailedFetches == {e \in Fetches : arg[e].t = "throw"}

\* C11: buildDailyStats fails exactly when one of its five fetches fails,
\* and then with the error of a failed fetch as that fetch raised it; when
\* all five are fulfilled it returns a DailyStatsOutput, whatever the
\* payloads hold.
C11_FailsOnlyOnFetch ==
    ret.fn = "buildDailyStats" =>
        IF FailedFetches # {}
        THEN \E e \in FailedFetches : ret.out = FetchError(e)
        ELSE ret.out.t = "object"

\* ============================================ claims on the client, C22-C26
\* the step in which call c enters ensureValidToken(): at the start of a
\* get(), on a 401 answered by a token that is no longer current, and for
\* the re-send after the login that a 401 asked for
EntersEnsure(c) ==
    \/ calls[c].pc = "idle" /\ calls'[c].op = "get"
    \/ First401(c) /\ tokenData.accessToken # calls[c].requestToken
    \/ /\ Waiting(c) /\ calls[c].site = "retry401"
       /\ Settles(calls[c].waitingOn) /\ settled'.error = "none"

\* C22: ensureValidToken() calls login() exactly when no token is stored or
\* the stored token has under five minutes left, and then returns only when
\* that login has completed; with five minutes or more left it returns
\* with no login() call and no auth request.
C22_Step ==
    /\ \A c \in Callers : EntersEnsure(c) =>
          IF Stale(tokenData', now)
          THEN /\ calls'[c].pc = "awaitLogin"
               /\ calls'[c].site = "ensure"
               /\ calls'[c].logins = calls[c].logins + 1
               /\ calls'[c].waitingOn \in pending'
               /\ calls'[c].gets = calls[c].gets
          ELSE /\ calls'[c].pc = "awaitGet"
               /\ calls'[c].logins = calls[c].logins
               /\ authSent' = authSent
               /\ calls'[c].requestToken = tokenData'.accessToken
    /\ \A c \in Callers :
          (Waiting(c) /\ calls[c].site = "ensure" /\ calls'[c] # calls[c]) =>
              Settles(calls[c].waitingOn)

C22_Inv ==
    \A c \in Callers :
        (Waiting(c) /\ calls[c].site = "ensure") => calls[c].waitingOn \in pending

C22_EnsureValidToken == []C22_Inv /\ [][C22_Step]_vars

C22_Witness ==
    \E c, d \in Callers :
        /\ calls[c].op = "get" /\ calls[c].pc = "done"
        /\ calls[c].logins = 1 /\ calls[c].gets = 1
        /\ calls[d].op = "get" /\ calls[d].pc = "awaitGet"
        /\ calls[d].logins = 0 /\ calls[d].gets = 1
        /\ calls[d].remaining >= 300000

\* C23: the stored token is the token of the most recently started login
\* that succeeded: attempts settle in the order in which they were started,
\* a successful one installs its token, and no step puts back the token of
\* an attempt started before the one whose token is stored.
C23_Inv ==
    /\ \A a \in pending : a > settled.id
    /\ settled.error = "none" => tokenData = settled.token

C23_Step ==
    /\ \A a \in pending : Settles(a) =>
          /\ a > settled.id
          /\ settled'.id = a
          /\ \A b \in pending' : b > a
          /\ IF settled'.error = "none"
             THEN tokenData' = settled'.token
             ELSE tokenData' = tokenData
    /\ (\A a \in pending : ~Settles(a)) => tokenData' = tokenData

C23_LatestLoginWins == []C23_Inv /\ [][C23_Step]_vars

C23_Witness ==
    /\ settled.id = 2
    /\ settled.error = "none"
    /\ tokenData = settled.token
    /\ \E c \in Callers :
          /\ calls[c].op = "login" /\ calls[c].pc = "done"
          /\ calls[c].outcome.token # NoToken
          /\ calls[c].outcome.token.accessToken # tokenData.accessToken

\* the step in which a login attempt succeeds
LoginSucceeds == \E a \in pending : Settles(a) /\ settled'.error = "none"

\* C24: the stored token changes only in the step in which a login attempt
\* succeeds, and then to that attempt's token: a login that fails, a GET
\* response of any status and ensureValidToken() on a token with five
\* minutes or more left leave it as it was, and a stored token is never
\* reset to empty.
C24_Step ==
    /\ tokenData' # tokenData => (LoginSucceeds /\ tokenData' = settled'.token)
    /\ \A a \in pending :
          (Settles(a) /\ settled'.error # "none") => tokenData' = tokenData
    /\ \A c \in Callers : Responds(c) => tokenData' = tokenData
    /\ \A c \in Callers :
          (EntersEnsure(c) /\ ~LoginSucceeds /\ ~Stale(tokenData, now)) =>
              tokenData' = tokenData
    /\ tokenData.accessToken # "" => tokenData'.accessToken # ""

C24_TokenFrame == [][C24_Step]_vars

C24_Witness ==
    /\ settled.id = 2
    /\ settled.error = "status"
    /\ tokenData.accessToken # ""
    /\ \E c \in Callers :
          /\ calls[c].pc = "failed" /\ calls[c].outcome.kind = "loginError"
          /\ calls[c].gets = 1 /\ calls[c].lastStatus = 401

\* the step sends a GET request of call c
Sends(c) == calls'[c].gets = calls[c].gets + 1

\* C25: every GET request carries the access token that a successful login
\* stored; when the login that a get() waits for fails, the get() fails
\* with that login's error and sends no request; the "No access token
\* available" error of getHeaders() is never raised.
C25_Inv ==
    \A c \in Callers :
        /\ calls[c].outcome.err # "noAccessToken"
        /\ calls[c].pc = "awaitGet" =>
              (calls[c].requestToken \in AccessTokens /\ settled.id > 0)
        /\ calls[c].gets > 0 => settled.id > 0

C25_Step ==
    /\ \A c \in Callers : Sends(c) =>
          /\ tokenData' # NoToken
          /\ calls'[c].requestToken = tokenData'.accessToken
          /\ calls'[c].pc = "awaitGet"
    /\ \A a \in pending : \A c \in WaitersOf(a) :
          (Settles(a) /\ settled'.error # "none" /\ calls[c].op = "get") =>
              /\ calls'[c].pc = "failed"
              /\ calls'[c].outcome.kind = "loginError"
              /\ calls'[c].outcome.err = settled'.error
              /\ ~Sends(c)

C25_BearerToken == []C25_Inv /\ [][C25_Step]_vars

C25_Witness ==
    /\ tokenData = NoToken
    /\ settled.id = 1
    /\ settled.error = "tokenNotPresent"
    /\ \A c \in Callers :
          /\ calls[c].op = "get" /\ calls[c].pc = "failed"
          /\ calls[c].gets = 0
          /\ calls[c].outcome.err = "tokenNotPresent"

\* ------------------------------------------------------ get() under fairness
\* The calls are get() calls only; every auth POST and every GET that is
\* outstanding is eventually answered (with a response or a transport
\* failure): weak fairness of the two completion actions, for each attempt
\* and for each call.
NextGets ==
    \/ \E c \in Callers : StartGet(c)
    \/ \E c \in Callers, status \in GetResponses : GetResponse(c, status)
    \/ \E a \in 1..MaxLogins, resp \in AuthResponses : LoginComplete(a, resp)
    \/ Tick

RequestsComplete ==
    /\ \A c \in Callers : WF_vars(\E status \in GetResponses : GetResponse(c, status))
    /\ \A a \in 1..MaxLogins : WF_vars(\E resp \in AuthResponses : LoginComplete(a, resp))

SpecGets == Init /\ [][NextGets]_vars /\ RequestsComplete

\* C26: when every auth POST and every GET eventually completes, every
\* get() that was started eventually ends with a payload or with an error,
\* also when it shares its login with another get(): it sends at most two
\* requests, a call that waits on a login waits on an outstanding attempt,
\* and so no wait on a login lasts forever.
C26_Terminates ==
    /\ [](\A c \in Callers :
            /\ calls[c].gets <= 2
            /\ Waiting(c) => calls[c].waitingOn \in pending)
    /\ \A c \in Callers :
          (calls[c].op = "get") ~>
              (calls[c].pc \in {"done", "failed"} /\
               calls[c].outcome.kind \in {"payload", "loginError", "apiError", "transportError"})

C26_Witness ==
    /\ authSent = 2
    /\ \A c \in Callers :
          /\ calls[c].op = "get" /\ calls[c].pc \in {"done", "failed"}
          /\ calls[c].gets = 2
          /\ calls[c].logins >= 1

\* ======================================= buildDailyStats(): the five fetches
\* The argument list of Promise.all: the five client methods in the order in
\* which buildDailyStats() calls them; each is get() on its path with the
\* date as the query.
FetchOrder == <<"getHome", "getSleep", "getStrain", "getHealthspan", "getSleepLastNight">>

Endpoint ==
    [ getHome |-> "/home-service/v1/home",
      getSleep |-> "/home-service/v1/deep-dive/sleep",
      getSleepLastNight |-> "/home-service/v1/deep-dive/sleep/last-night",
      getStrain |-> "/home-service/v1/deep-dive/strain",
      getHealthspan |-> "/healthspan-service/v1/healthspan/bff" ]

Request(method, date) == [path |-> Endpoint[method], date |-> date]

\* the tokens of the auth service: attempt a is answered with the a-th one,
\* valid for seven minutes
NewTokens == <<"tok1", "tok2", "tok3", "tok4", "tok5">>

FreshLogin(a) ==
    [kind |-> "response", ok |-> TRUE, accessToken |-> NewTokens[a],
     numeric |-> TRUE, expiresIn |-> 420]

\* the statuses the five endpoints answer with
FetchStatuses == {200, 401, 500}

InitFetches ==
    /\ now = 0
    /\ tokenData = NoToken
    /\ loginInFlight = 0
    /\ authSent = 0
    /\ pending = {}
    /\ settled = NoAttempt
    /\ calls = [e \in Fetches |-> IdleCall]
    /\ arg = [fn |-> "buildDailyStats", out |-> DateArgument]
    /\ ret = NotRun

\* five calls made one after the other, each awaited before the next
MayStartAwaited(i) ==
    \A j \in 1..(i - 1) : calls[FetchOrder[j]].pc = "done"

\* The i-th element of the array literal is evaluated when the ones before
\* it have been: each call returns its promise at its first await.
MayStart(i) ==
    \A j \in 1..(i - 1) : calls[FetchOrder[j]].pc # "idle"

\* buildDailyStats() has run up to an await: it has no call left to make
AtAwait ==
    \A i \in 1..Len(FetchOrder) : calls[FetchOrder[i]].pc = "idle" => ~MayStart(i)

\* Promise.all has a reaction to run: an element rejected, or all fulfilled
Rejecting == {e \in Fetches : calls[e].pc = "failed"}

SettleDue ==
    /\ ret = NotRun
    /\ Rejecting # {} \/ \A e \in Fetches : calls[e].pc = "done"

\* The command is alive and its reactions have run.  Once buildDailyStats()
\* has rejected, main().catch ends the process with the calls that are
\* still outstanding; once it has returned, no call is left.
Running == ret = NotRun /\ ~SettleDue

FetchStarts(i) ==
    /\ Running
    /\ MayStart(i)
    /\ StartGet(FetchOrder[i])

FetchResponse(e, status) ==
    /\ Running
    /\ AtAwait
    /\ GetResponse(e, status)

FetchLoginComplete(a) ==
    /\ Running
    /\ AtAwait
    /\ LoginComplete(a, FreshLogin(a))

\* `await Promise.all([...])` settles: it rejects with the error of the
\* first call that failed, or is fulfilled with the five payloads, which the
\* extractors then read.
DailySettles ==
    /\ SettleDue
    /\ ret' = [fn |-> "buildDailyStats",
               out |-> IF Rejecting # {}
                       THEN FetchError(Only(Rejecting))
                       ELSE [t |-> "payloads",
                             v |-> [e \in Fetches |-> calls[e].outcome.body]]]
    /\ UNCHANGED <<now, tokenData, loginInFlight, authSent, pending, settled, calls, arg>>

NextFetches ==
    \/ \E i \in 1..Len(FetchOrder) : FetchStarts(i)
    \/ \E e \in Fetches, status \in FetchStatuses : FetchResponse(e, status)
    \/ \E a \in 1..MaxLogins : FetchLoginComplete(a)
    \/ DailySettles

SpecFetches == InitFetches /\ [][NextFetches]_vars

\* The same with the clock advancing while buildDailyStats() waits.
NextFetchesClock ==
    \/ NextFetches
    \/ (Running /\ AtAwait /\ Tick)

SpecFetchesClock == InitFetches /\ [][NextFetchesClock]_vars

\* -------------------------------------------------------- claims C27, C28
\* the GET requests sent so far by the five calls together
TotalGets ==
    calls["getHome"].gets + calls["getSleep"].gets + calls["getStrain"].gets
        + calls["getHealthspan"].gets + calls["getSleepLastNight"].gets

\* the step sends an auth POST
SendsLogin == authSent' = authSent + 1

\* the step delivers to call e the first 401, for a token that has been
\* replaced since the request was sent
Rotated401(e) ==
    /\ calls[e].pc = "awaitGet" /\ ~calls[e].retried /\ calls'[e].retried
    /\ tokenData # NoToken
    /\ tokenData.accessToken # calls[e].requestToken

\* C27 as stated: with logins that succeed with new tokens of more than five
\* minutes, one buildDailyStats() on a client without a token sends at most
\* two login requests and at most ten GET requests.
C27_Original == authSent <= 2 /\ TotalGets <= 10

\* C27 (amended): with logins that succeed with new tokens of more than five
\* minutes, one buildDailyStats() on a client without a token sends at most
\* ten GET requests, two for each call at most.  The first login request is
\* sent for the missing token, the second on a 401 for the stored token or
\* for a stored token that has under five minutes left; a third or later
\* one is sent only when a 401 for a replaced token finds the stored token
\* with under five minutes left.  So at most two are sent as long as every
\* stored token keeps five minutes or more.
C27_Inv ==
    /\ TotalGets <= 10
    /\ \A e \in Fetches : calls[e].gets <= 2
    /\ authSent > 2 => now > 0

C27_Step ==
    SendsLogin =>
        /\ authSent = 0 => tokenData = NoToken
        /\ authSent >= 1 => tokenData # NoToken
        /\ authSent >= 2 =>
              /\ tokenData.expiresAt - now < 300000
              /\ \E e \in Fetches : Rotated401(e) /\ calls'[e].site = "ensure"

C27_Bounded == []C27_Inv /\ [][C27_Step]_vars

C27_Witness ==
    /\ authSent = 2
    /\ TotalGets = 10
    /\ ret.fn = "buildDailyStats" /\ ret.out.t = "payloads"
    /\ \A e \in Fetches : calls[e].pc = "done" /\ calls[e].outcome.body = 2

\* the fetches buildDailyStats() has started, and the requests they are for
Started == {e \in Fetches : calls[e].pc # "idle"}

Requests == {Request(e, arg.out) : e \in Started}

\* an exchange has completed: buildDailyStats() has been waiting
Waited == settled.id > 0 \/ \E e \in Fetches : calls[e].lastStatus # -1

\* C28: buildDailyStats() starts five fetches, one for each of the home,
\* sleep, sleep-last-night, strain and healthspan endpoints, all for the
\* date it was called with; all five are started before it waits for any
\* of them, and the extractors get the payloads only when all five have
\* completed.
C28_FireAllAwaitAll ==
    /\ \A r \in Requests : r.date = arg.out
    /\ Cardinality({r.path : r \in Requests}) = Cardinality(Started)
    /\ Waited =>
          /\ Started = Fetches
          /\ {r.path : r \in Requests} =
                { "/home-service/v1/home",
                  "/home-service/v1/deep-dive/sleep",
                  "/home-service/v1/deep-dive/sleep/last-night",
                  "/home-service/v1/deep-dive/strain",
                  "/healthspan-service/v1/healthspan/bff" }
    /\ (ret.fn = "buildDailyStats" /\ ret.out.t = "payloads") =>
          \A e \in Fetches :
              /\ calls[e].pc = "done"
              /\ calls[e].outcome.kind = "payload"
              /\ ret.out.v[e] = calls[e].outcome.body

C28_Witness ==
    /\ ret.fn = "buildDailyStats" /\ ret.out.t = "payloads"
    /\ authSent = 1
    /\ \A e \in Fetches : calls[e].pc = "done" /\ calls[e].gets = 1

\* ------------------------------------------- getSleepStages(): two cards
\* A zone of the bar graph, and the hours_of_sleep card around some content.
Zone(id, display) == Obj([id |-> id, bar_graph_tile_time_display |-> Str(display)])

BarGraph(zones) ==
    Obj([type |-> Tag.BAR_GRAPH_CARD, content |-> Obj([heart_rate_zones |-> zones])])

SleepCard(cardContent) ==
    Obj([type |-> Tag.DETAILS_GRAPHING_CARD,
         content |-> Obj([id |-> Tag.hours_of_sleep, card_content |-> cardContent])])

NoStages == Obj([rem |-> Null, deep |-> Null, light |-> Null])

\* The cards that come first, each with the stages it shows: all three
\* zones, one zone, no BAR_GRAPH_CARD among the entries, no card_content, a
\* BAR_GRAPH_CARD without heart_rate_zones, and one whose zones are no array.
FirstCards ==
    { [card |-> SleepCard(Arr(<<Null, BarGraph(Arr(<<
                    Zone(Tag.REM_SLEEP, <<"1", ":", "3", "0">>), Zone(Tag.SWS_SLEEP, <<"2", ":", "0", "0">>),
                    Zone(Tag.LIGHT_SLEEP, <<"4", ":", "1", "5">>) >>))>>)),
       stages |-> Obj([rem |-> Str(<<"1", "h", " ", "3", "0", "m">>), deep |-> Str(<<"2", "h", " ", "0", "m">>), light |-> Str(<<"4", "h", " ", "1", "5", "m">>)])],
      [card |-> SleepCard(Arr(<<BarGraph(Arr(<<Zone(Tag.SWS_SLEEP, <<"0", ":", "4", "5">>)>>))>>)),
       stages |-> Obj([rem |-> Null, deep |-> Str(<<"0", "h", " ", "4", "5", "m">>), light |-> Null])],
      [card |-> SleepCard(Arr(<<Obj([type |-> Tag.SCORE_GAUGE])>>)), stages |-> NoStages],
      [card |-> SleepCard(Undef), stages |-> NoStages],
      [card |-> SleepCard(Arr(<<Obj([type |-> Tag.BAR_GRAPH_CARD, content |-> Obj([title |-> Null])])>>)),
       stages |-> NoStages],
      [card |-> SleepCard(Arr(<<BarGraph(Null)>>)), stages |-> NoStages] }

\* What follows the first card: another card with all three zones, one with
\* a zone whose display is a number, a card with no graph, or no card.
LaterItems ==
    { SleepCard(Arr(<<BarGraph(Arr(<<
          Zone(Tag.REM_SLEEP, <<"3", ":", "0", "0">>), Zone(Tag.SWS_SLEEP, <<"1", ":", "1", "0">>),
          Zone(Tag.LIGHT_SLEEP, <<"5", ":", "0", "5">>) >>))>>)),
      SleepCard(Arr(<<BarGraph(Arr(<<
          Obj([id |-> Tag.REM_SLEEP, bar_graph_tile_time_display |-> Num(85, 0)]) >>))>>)),
      SleepCard(Arr(<<>>)),
      Null }

\* The payloads: the two items in one section, in two sections, in two
\* sections with others in between and before, or followed by a null section.
TwoCards(first, later) ==
    { Obj([sections |-> Arr(<<Obj([items |-> Arr(<<first, later>>)])>>)]),
      Obj([sections |-> Arr(<<Obj([items |-> Arr(<<first>>)]), Obj([items |-> Arr(<<later>>)])>>)]),
      Obj([sections |-> Arr(<<
          Obj([items |-> Arr(<<Null, Obj([type |-> Tag.DETAILS_GRAPHING_CARD,
                                         content |-> Obj([id |-> Tag.SCORE_GAUGE])]), first>>)]),
          Obj([items |-> Null]),
          Obj([items |-> Arr(<<later>>)])>>)]),
      Obj([sections |-> Arr(<<Obj([items |-> Arr(<<first>>)]), Null,
                              Obj([items |-> Arr(<<later>>)])>>)]) }

InitStages ==
    /\ ClientInit
    /\ arg \in UNION { TwoCards(f.card, later) : f \in FirstCards, later \in LaterItems }
    /\ ret = NotRun

SpecStages == InitStages /\ [][CallGetSleepStages]_vars

\* C29: getSleepStages() takes the stages from the first
\* DETAILS_GRAPHING_CARD item with the content id hours_of_sleep and
\* returns there: whatever follows that card, another such card included,
\* the result is what the first card shows, and it is all-null when the
\* first card has no BAR_GRAPH_CARD or no heart_rate_zones.
C29_FirstCard ==
    ret.fn = "getSleepStages" =>
        \A f \in FirstCards, later \in LaterItems :
            arg \in TwoCards(f.card, later) => ret.out = f.stages

C29_Witness ==
    /\ ret.fn = "getSleepStages"
    /\ ret.out = NoStages
    /\ \E f \in FirstCards :
          /\ f.stages = NoStages
          /\ arg = Obj([sections |-> Arr(<<Obj([items |-> Arr(<<f.card>>)]),
                                           Obj([items |-> Arr(<<
                SleepCard(Arr(<<BarGraph(Arr(<<
                    Zone(Tag.REM_SLEEP, <<"3", ":", "0", "0">>), Zone(Tag.SWS_SLEEP, <<"1", ":", "1", "0">>),
                    Zone(Tag.LIGHT_SLEEP, <<"5", ":", "0", "5">>) >>))>>)) >>)])>>)])

\* -------------------------------------------------------------- claim C30
\* the overview's metadata.cycle_metadata.during.upper_endpoint
CycleEnd == Path(arg["getHome"], <<"metadata", "cycle_metadata", "during", "upper_endpoint">>)

\* C30: in every output of buildDailyStats(), day.start is sleep.wakeTime
\* (both null, or the same timestamp), and day.end comes from the
\* overview's metadata.cycle_metadata.during.upper_endpoint alone: it is
\* null when that is no string, and that instant in local time otherwise,
\* whatever the other payloads hold.
C30_DayBounds ==
    (ret.fn = "buildDailyStats" /\ ret.out.t = "object") =>
        /\ ret.out.v.day.v.start = ret.out.v.sleep.v.wakeTime
        /\ ret.out.v.day.v.start.t \in {"null", "string"}
        /\ IF CycleEnd.t = "string"
           THEN CycleEnd = NextDay /\ ret.out.v.day.v.end = Str(<<"2", "0", "2", "4", "-", "0", "1", "-", "0", "2", "T", "0", "4", ":", "0", "0", ":", "0", "0", "-", "0", "5", ":", "0", "0">>)
           ELSE ret.out.v.day.v.end = Null

C30_Witness ==
    /\ ret.fn = "buildDailyStats" /\ ret.out.t = "object"
    /\ ret.out.v.day.v.start.t = "string"
    /\ ret.out.v.day.v.end.t = "string"
    /\ ret.out.v.day.v.start # ret.out.v.day.v.end
    /\ arg["getSleepLastNight"] # WellFormed

\* ============================================================ the command
\* main() and the two commands.  A command line token is a string (its
\* characters); an Error carries the text of its message and the characters
\* of the value the message quotes.
Failure(message, about) ==
    [t |-> "throw", name |-> "Error", message |-> message, about |-> about]

True == [t |-> "boolean", v |-> TRUE]

\* what a command that returned has printed
Printed(stdout) == [t |-> "returned", stdout |-> stdout]

\* token.startsWith("--")
StartsWithDashes(token) == Len(token) >= 2 /\ token[1] = "-" /\ token[2] = "-"

\* parseFlags(): the assignments `flags[key] = ...` in the order the loop
\* makes them, or the Error thrown at the first token without dashes that
\* is no value of the flag before it.
parseFlags(tokens) ==
    LET n == Len(tokens)
        rest[i \in 1..(n + 2)] ==
            IF i > n THEN <<>>
            ELSE IF ~StartsWithDashes(tokens[i])
            THEN <<[key |-> <<>>, value |-> Failure("Unexpected argument", tokens[i])]>>
            ELSE IF i < n /\ tokens[i + 1] # <<>> /\ ~StartsWithDashes(tokens[i + 1])
            THEN <<[key |-> SubSeq(tokens[i], 3, Len(tokens[i])),
                    value |-> Str(tokens[i + 1])]>> \o rest[i + 2]
            ELSE <<[key |-> SubSeq(tokens[i], 3, Len(tokens[i])), value |-> True]>>
                     \o rest[i + 1]
        thrown == {i \in 1..Len(rest[1]) : rest[1][i].value.t = "throw"}
    IN  IF thrown # {}
        THEN rest[1][CHOOSE i \in thrown : \A j \in thrown : i <= j].value
        ELSE [t |-> "flags", v |-> rest[1]]

\* key in flags
hasFlag(flags, key) == \E i \in 1..Len(flags.v) : flags.v[i].key = key

\* flags[key] when it is a string, undefined otherwise: the last assignment
\* to the key counts
getFlagString(flags, key) ==
    LET is == {i \in 1..Len(flags.v) : flags.v[i].key = key}
        last == flags.v[CHOOSE i \in is : \A j \in is : j <= i].value
    IN  IF is = {} THEN Undef
        ELSE IF last.t = "string" THEN last ELSE Undef

\* the Error for the first key of flags that is not allowed, Undef if none
CheckAllowed(flags, allowed, hint) ==
    LET bad == {i \in 1..Len(flags.v) : flags.v[i].key \notin allowed}
    IN  IF bad = {} THEN Undef
        ELSE Failure(hint, flags.v[CHOOSE i \in bad : \A j \in bad : i <= j].key)

\* ensureDate(): /^\d{4}-\d{2}-\d{2}$/
ensureDate(value) ==
    IF /\ Len(value) = 10
       /\ AllDigits(value, 1, 4) /\ value[5] = "-"
       /\ AllDigits(value, 6, 7) /\ value[8] = "-"
       /\ AllDigits(value, 9, 10)
    THEN Str(value)
    ELSE Failure("Invalid date", value)

\* createClientFromEnv(): env tells which variables are set and not empty
createClientFromEnv(env) ==
    IF ~env.WHOOP_EMAIL THEN Failure("Missing", <<"W", "H", "O", "O", "P", "_", "E", "M", "A", "I", "L">>)
    ELSE IF ~env.WHOOP_PASSWORD THEN Failure("Missing", <<"W", "H", "O", "O", "P", "_", "P", "A", "S", "S", "W", "O", "R", "D">>)
    ELSE [t |-> "client"]

\* getDefaultDate(): local today
Today == <<"2", "0", "2", "4", "-", "0", "1", "-", "0", "1">>

\* runAuth(tokens); login is what client.login() settles with
runAuth(tokens, env, login) ==
    Only({ IF flags.t = "throw" THEN flags
           ELSE IF CheckAllowed(flags, {<<"h", "e", "l", "p">>}, "Unknown flag. Run bun run auth --help").t = "throw"
           THEN CheckAllowed(flags, {<<"h", "e", "l", "p">>}, "Unknown flag. Run bun run auth --help")
           ELSE IF hasFlag(flags, <<"h", "e", "l", "p">>) THEN Printed("auth help")
           ELSE IF createClientFromEnv(env).t = "throw" THEN createClientFromEnv(env)
           ELSE IF login.t = "throw" THEN login
           ELSE Printed("Authentication succeeded.") :
           flags \in {parseFlags(tokens)} })

\* runStats(tokens); daily is what buildDailyStats() settles with
runStats(tokens, env, daily) ==
    Only({ IF flags.t = "throw" THEN flags
           ELSE IF CheckAllowed(flags, {<<"h", "e", "l", "p">>, <<"d", "a", "t", "e">>, <<"t", "e", "x", "t">>, <<"j", "s", "o", "n">>}, "Unknown flag. Run bun run stats --help").t = "throw"
           THEN CheckAllowed(flags, {<<"h", "e", "l", "p">>, <<"d", "a", "t", "e">>, <<"t", "e", "x", "t">>, <<"j", "s", "o", "n">>}, "Unknown flag. Run bun run stats --help")
           ELSE IF hasFlag(flags, <<"h", "e", "l", "p">>) THEN Printed("stats help")
           ELSE IF hasFlag(flags, <<"t", "e", "x", "t">>) /\ hasFlag(flags, <<"j", "s", "o", "n">>)
           THEN Failure("Use either --text or --json, not both.", <<>>)
           ELSE Only({ IF hasFlag(flags, <<"d", "a", "t", "e">>) /\ Falsy(dateFlag)
                       THEN Failure("The --date flag requires a value in YYYY-MM-DD format.", <<>>)
                       ELSE IF createClientFromEnv(env).t = "throw" THEN createClientFromEnv(env)
                       ELSE Only({ IF date.t = "throw" THEN date
                                   ELSE IF daily.t = "throw" THEN daily
                                   ELSE Printed(IF hasFlag(flags, <<"t", "e", "x", "t">>) THEN "text" ELSE "json") :
                                   date \in {ensureDate(IF IsNullish(dateFlag) THEN Today
                                                        ELSE dateFlag.v)} }) :
                       dateFlag \in {getFlagString(flags, <<"d", "a", "t", "e">>)} }) :
           flags \in {parseFlags(tokens)} })

\* main(): argv without its empty strings, then the command
main(argv, env, net) ==
    LET words == SelectSeq(argv, LAMBDA w : w # <<>>)
    IN  IF words = <<>> \/ words[1] \in {<<"-", "-", "h", "e", "l", "p">>, <<"h", "e", "l", "p">>} THEN Printed("help")
        ELSE IF words[1] = <<"a", "u", "t", "h">> THEN runAuth(Tail(words), env, net)
        ELSE IF words[1] = <<"s", "t", "a", "t", "s">> THEN runStats(Tail(words), env, net)
        ELSE Failure("Unknown command", words[1])

\* a handler that prints the message and lets the process end by itself
ExitPrintsOnly(result) ==
    [status |-> 0, result |-> result,
     stderr |-> IF result.t = "throw" THEN <<[prefix |-> "Error: ", error |-> result]>> ELSE <<>>]

\* main().catch(...): the message goes to standard error and the process
\* exits with 1; when main() returns, the process ends with status 0.
Exit(result) ==
    IF result.t = "throw"
    THEN [status |-> 1, result |-> result,
          stderr |-> <<[prefix |-> "Error: ", error |-> result]>>]
    ELSE [status |-> 0, result |-> result, stderr |-> <<>>]

\* ---------------------------------------------------- the command lines
MaxArgs == 3

Words == {<<"-", "-", "h", "e", "l", "p">>, <<"-", "-", "d", "a", "t", "e">>, <<"-", "-", "t", "e", "x", "t">>, <<"-", "-", "j", "s", "o", "n">>, <<"-", "-", "b", "o", "g", "u", "s">>, <<"2", "0", "2", "4", "-", "0", "1", "-", "0", "1">>, <<"y", "e", "s", "t", "e", "r", "d", "a", "y">>}

Arguments == UNION { [1..n -> Words] : n \in 0..MaxArgs }

Commands == {<<"a", "u", "t", "h">>, <<"s", "t", "a", "t", "s">>, <<"h", "e", "l", "p">>, <<"-", "-", "h", "e", "l", "p">>, <<"s", "t", "a", "t", "u", "s">>}

CommandLines == {<<>>} \cup { <<command>> \o rest : command \in Commands, rest \in Arguments }

Environments ==
    { [WHOOP_EMAIL |-> TRUE, WHOOP_PASSWORD |-> TRUE],
      [WHOOP_EMAIL |-> FALSE, WHOOP_PASSWORD |-> TRUE],
      [WHOOP_EMAIL |-> TRUE, WHOOP_PASSWORD |-> FALSE] }

\* what the network call of the command settles with: its value, the Error
\* of a failed login or fetch, or a TypeError raised on an unexpected body
NetOutcomes == {[t |-> "fulfilled"], Failure("request failed", <<>>), Throw}

InitMain ==
    /\ ClientInit
    /\ arg \in [argv : CommandLines, env : Environments, net : NetOutcomes]
    /\ ret = NotRun

CallMain ==
    /\ ret = NotRun
    /\ ret' = [fn |-> "main", out |-> Exit(main(arg.argv, arg.env, arg.net))]
    /\ UNCHANGED <<now, tokenData, loginInFlight, authSent, pending, settled, calls, arg>>

SpecMain == InitMain /\ [][CallMain]_vars

\* ------------------------------------------------------ claim on the exit
Has(tokens, word) == \E i \in 1..Len(tokens) : tokens[i] = word

\* the command line names the command and every variable of the login is set
Runs(command) ==
    /\ arg.argv # <<>> /\ arg.argv[1] = command
    /\ arg.env.WHOOP_EMAIL /\ arg.env.WHOOP_PASSWORD

\* command lines of stats that ask for the day's numbers in a valid way
ValidStats == {<<>>, <<<<"-", "-", "t", "e", "x", "t">>>>, <<<<"-", "-", "j", "s", "o", "n">>>>, <<<<"-", "-", "d", "a", "t", "e">>, <<"2", "0", "2", "4", "-", "0", "1", "-", "0", "1">>>>, <<<<"-", "-", "d", "a", "t", "e">>, <<"2", "0", "2", "4", "-", "0", "1", "-", "0", "1">>, <<"-", "-", "t", "e", "x", "t">>>>}

\* command lines of auth or stats with an invalid argument: an unknown flag,
\* a word that is no value of a flag, --text together with --json, a last
\* --date without a value or with a value that is no date
InvalidArguments ==
    /\ arg.argv # <<>> /\ arg.argv[1] \in {<<"a", "u", "t", "h">>, <<"s", "t", "a", "t", "s">>}
    /\ LET rest == Tail(arg.argv)
       IN  \/ Has(rest, <<"-", "-", "b", "o", "g", "u", "s">>)
           \/ rest # <<>> /\ ~StartsWithDashes(rest[1])
           \/ /\ arg.argv[1] = <<"a", "u", "t", "h">>
              /\ \E w \in {<<"-", "-", "d", "a", "t", "e">>, <<"-", "-", "t", "e", "x", "t">>, <<"-", "-", "j", "s", "o", "n">>} : Has(rest, w)
           \/ /\ arg.argv[1] = <<"s", "t", "a", "t", "s">> /\ ~Has(rest, <<"-", "-", "h", "e", "l", "p">>)
              /\ \/ Has(rest, <<"-", "-", "t", "e", "x", "t">>) /\ Has(rest, <<"-", "-", "j", "s", "o", "n">>)
                 \/ \E i \in 1..Len(rest) :
                        /\ rest[i] = <<"-", "-", "d", "a", "t", "e">>
                        /\ \A j \in (i + 1)..Len(rest) : rest[j] # rest[i]
                        /\ i < Len(rest) => rest[i + 1] # <<"2", "0", "2", "4", "-", "0", "1", "-", "0", "1">>

\* C21: when auth or stats ends with an error (the login or a fetch failed,
\* an argument is invalid, a variable of the login is missing), the process
\* writes "Error: " and the message of that error to standard error and
\* exits with a status other than zero; the exit status is zero exactly when
\* main() returned without an error, and then nothing went to standard error.
C21_ExitStatus ==
    ret.fn = "main" =>
        /\ ret.out.status \in {0, 1}
        /\ (ret.out.status = 0) <=> (ret.out.result.t = "returned")
        /\ ret.out.status = 0 => ret.out.stderr = <<>>
        /\ ret.out.status # 0 =>
              /\ ret.out.result.t = "throw"
              /\ ret.out.stderr = <<[prefix |-> "Error: ", error |-> ret.out.result]>>
        /\ (Runs(<<"a", "u", "t", "h">>) /\ Tail(arg.argv) = <<>>) =>
              IF arg.net.t = "throw"
              THEN ret.out.status # 0 /\ ret.out.stderr[1].error = arg.net
              ELSE ret.out.status = 0 /\ ret.out.result.stdout = "Authentication succeeded."
        /\ (Runs(<<"s", "t", "a", "t", "s">>) /\ Tail(arg.argv) \in ValidStats) =>
              IF arg.net.t = "throw"
              THEN ret.out.status # 0 /\ ret.out.stderr[1].error = arg.net
              ELSE ret.out.status = 0 /\ ret.out.result.stdout \in {"text", "json"}
        /\ InvalidArguments =>
              /\ ret.out.status # 0
              /\ ret.out.stderr[1].error.name = "Error"
              /\ ret.out.stderr[1].error # arg.net
        /\ ( /\ arg.argv # <<>> /\ arg.argv[1] \in {<<"a", "u", "t", "h">>, <<"s", "t", "a", "t", "s">>}
             /\ ~Has(arg.argv, <<"-", "-", "h", "e", "l", "p">>)
             /\ ~(arg.env.WHOOP_EMAIL /\ arg.env.WHOOP_PASSWORD) ) =>
              ret.out.status # 0

\* stats --date 2024-01-01 with a fetch that failed: status 1 and the
\* message of the fetch on standard error
C21_Witness ==
    /\ ret.fn = "main"
    /\ Runs(<<"s", "t", "a", "t", "s">>) /\ Tail(arg.argv) = <<<<"-", "-", "d", "a", "t", "e">>, <<"2", "0", "2", "4", "-", "0", "1", "-", "0", "1">>>>
    /\ arg.net = Failure("request failed", <<>>)
    /\ ret.out.status = 1
    /\ ret.out.stderr = <<[prefix |-> "Error: ", error |-> arg.net]>>
====
